---------------------------- MODULE Spec2Model ----------------------------
(***************************************************************************)
(* Retrieval and context assembly of the RAG pipeline:                     *)
(*   Retriever.retrieve / retrieve_with_reranking  (src/src/retrieval)     *)
(*   QAChain.answer_with_retrieved_docs / answer   (src/src/qa/chain.py)   *)
(*   VectorStore.query                             (src/src/index)         *)
(*                                                                         *)
(* Texts are TLA+ strings; Python's `in`, str.lower and the regular        *)
(* expressions of the source are computed character by character.         *)
(* Similarities are fixed-point numbers in hundredths (0.25 is 25).        *)
(* All modelled texts are ASCII, so the keywords of the source that hold   *)
(* a non-ASCII letter can never occur in them and are left out of the     *)
(* keyword sets.                                                           *)
(***************************************************************************)
EXTENDS Integers, Sequences, FiniteSets, TLC

(***************************************************************************)
(* Strings                                                                 *)
(***************************************************************************)
CharAt(s, i) == SubSeq(s, i, i)

\* Python: k in s
Contains(s, k) ==
    \E i \in 1..(Len(s) - Len(k) + 1) : SubSeq(s, i, i + Len(k) - 1) = k

\* Python: any(k in s for k in K)
AnyIn(K, s) == \E k \in K : Contains(s, k)

UpperChars == "ABCDEFGHIJKLMNOPQRSTUVWXYZ"
LowerChars == "abcdefghijklmnopqrstuvwxyz"
DigitChars == "0123456789"

IsDigit(c) == \E i \in 1..10 : CharAt(DigitChars, i) = c
IsLowerLetter(c) == \E i \in 1..26 : CharAt(LowerChars, i) = c
IsUpperLetter(c) == \E i \in 1..26 : CharAt(UpperChars, i) = c
\* \w of Python's re on the characters used here
IsWordCh(c) == IsDigit(c) \/ IsLowerLetter(c) \/ IsUpperLetter(c) \/ c = "_"
\* \s
IsSpaceCh(c) == c \in {" ", "\n", "\t", "\r"}

LowerCh(c) ==
    IF IsUpperLetter(c)
    THEN CharAt(LowerChars, CHOOSE i \in 1..26 : CharAt(UpperChars, i) = c)
    ELSE c

RECURSIVE LowerFrom(_, _)
LowerFrom(s, i) ==
    IF i > Len(s) THEN "" ELSE LowerCh(CharAt(s, i)) \o LowerFrom(s, i + 1)

\* Python: s.lower()
Lower(s) == LowerFrom(s, 1)

DigitVal(c) == (CHOOSE i \in 1..10 : CharAt(DigitChars, i) = c) - 1

RECURSIVE ToIntFrom(_, _, _)
ToIntFrom(s, i, acc) ==
    IF i > Len(s) THEN acc ELSE ToIntFrom(s, i + 1, acc * 10 + DigitVal(CharAt(s, i)))

\* Python: int(s) for a string of decimal digits
ToInt(s) == ToIntFrom(s, 1, 0)

RECURSIVE ToStr(_)
\* Python: str(n) for n >= 0
ToStr(n) ==
    IF n < 10 THEN CharAt(DigitChars, n + 1)
    ELSE ToStr(n \div 10) \o CharAt(DigitChars, (n % 10) + 1)

\* \b at the gap before position i (1-based) of s
WordBoundary(s, i) ==
    LET before == IF i > 1 /\ i - 1 <= Len(s) THEN IsWordCh(CharAt(s, i - 1)) ELSE FALSE
        after  == IF i >= 1 /\ i <= Len(s) THEN IsWordCh(CharAt(s, i)) ELSE FALSE
    IN  before # after

RECURSIVE DigitRunEnd(_, _)
\* position after the longest run of digits starting at i (i itself if none)
DigitRunEnd(s, i) ==
    IF i <= Len(s) /\ IsDigit(CharAt(s, i)) THEN DigitRunEnd(s, i + 1) ELSE i

RECURSIVE SpaceRunEnd(_, _)
\* position after the longest run of whitespace starting at i
SpaceRunEnd(s, i) ==
    IF i <= Len(s) /\ IsSpaceCh(CharAt(s, i)) THEN SpaceRunEnd(s, i + 1) ELSE i

StartsAt(s, i, k) == i >= 1 /\ i + Len(k) - 1 <= Len(s) /\ SubSeq(s, i, i + Len(k) - 1) = k

(***************************************************************************)
(* The model-code and generation patterns of the Retriever                 *)
(***************************************************************************)
\* r'\b([a-z]\d{1,2}|[a-z]{2}\d{1,2})\b' tried at position i of a lower-cased
\* string: the length of the match (0 if none), alternatives and the greedy
\* digit count in the order the regex engine tries them.
ModelMatchLen(s, i) ==
    LET L(j) == j <= Len(s) /\ IsLowerLetter(CharAt(s, j))
        D(j) == j <= Len(s) /\ IsDigit(CharAt(s, j))
    IN  IF ~WordBoundary(s, i) THEN 0
        ELSE IF L(i) /\ D(i + 1) /\ D(i + 2) /\ WordBoundary(s, i + 3) THEN 3
        ELSE IF L(i) /\ D(i + 1) /\ WordBoundary(s, i + 2) THEN 2
        ELSE IF L(i) /\ L(i + 1) /\ D(i + 2) /\ D(i + 3) /\ WordBoundary(s, i + 4) THEN 4
        ELSE IF L(i) /\ L(i + 1) /\ D(i + 2) /\ WordBoundary(s, i + 3) THEN 3
        ELSE 0

RECURSIVE ModelMatchesFrom(_, _)
ModelMatchesFrom(s, i) ==
    IF i > Len(s) THEN <<>>
    ELSE LET n == ModelMatchLen(s, i)
         IN  IF n > 0
             THEN <<SubSeq(s, i, i + n - 1)>> \o ModelMatchesFrom(s, i + n)
             ELSE ModelMatchesFrom(s, i + 1)

\* re.findall(model_pattern, s)
ModelMatches(s) == ModelMatchesFrom(s, 1)

\* r'\b(?:gen|generation)\s*(\d+)\b' tried at position i: <<end, digits>> of
\* the match, or <<0, "">>.
GenMatchAt(s, i) ==
    LET try(word) ==
            IF StartsAt(s, i, word)
            THEN LET d == SpaceRunEnd(s, i + Len(word))
                     e == DigitRunEnd(s, d)
                 IN  IF e > d /\ WordBoundary(s, e) THEN <<e, SubSeq(s, d, e - 1)>>
                     ELSE <<0, "">>
            ELSE <<0, "">>
    IN  IF ~WordBoundary(s, i) THEN <<0, "">>
        ELSE IF try("gen")[1] > 0 THEN try("gen")
        ELSE try("generation")

RECURSIVE GenMatchesFrom(_, _)
GenMatchesFrom(s, i) ==
    IF i > Len(s) THEN <<>>
    ELSE LET m == GenMatchAt(s, i)
         IN  IF m[1] > 0
             THEN <<m[2]>> \o GenMatchesFrom(s, m[1])
             ELSE GenMatchesFrom(s, i + 1)

\* re.findall(gen_pattern, s)
GenMatches(s) == GenMatchesFrom(s, 1)

(***************************************************************************)
(* Chunk texts.  A text is its leading characters `body` followed by `pad` *)
(* filler characters "." (a layout leader): length and content are those   *)
(* of the whole text, and no keyword or pattern of the source can match    *)
(* inside or across the filler.                                            *)
(***************************************************************************)
TextLen(t) == Len(t.body) + t.pad
TextLower(t) == Lower(t.body)
PlainText(s) == [body |-> s, pad |-> 0]

(***************************************************************************)
(* Retriever.retrieve: query analysis                                      *)
(***************************************************************************)
SpecKeywords == {"spezifikation", "specification", "specs", "technische", "hardware"}
SpecQuestionPatterns ==
    {"wieviel", "wie viel", "welche", "was ist", "welcher", "welches",
     "ram", "memory", "speicher", "prozessor", "cpu", "grafik", "gpu",
     "display", "bildschirm", "akku", "battery", "gewicht", "weight",
     "abmessungen", "dimensions", "ports"}

IsSpecQuery(query) ==
    LET ql == Lower(query)
    IN  AnyIn(SpecKeywords, ql) \/ AnyIn(SpecQuestionPatterns, ql)

ProcessorQueryTerms ==
    {"prozessor", "prozessoren", "processor", "processors", "cpu", "cpus",
     "welche prozessor", "welche processor", "prozessor-konfiguration",
     "prozessoroptionen", "prozessor-optionen"}
ScreenToBodyQueryTerms ==
    {"screen-to-body", "screen to body", "screen-to-body ratio",
     "screen to body ratio", "bezel", "display bezel", "screen bezel"}

IsProcessorQuery(query) == AnyIn(ProcessorQueryTerms, Lower(query))
IsScreenToBodyQuery(query) == AnyIn(ScreenToBodyQueryTerms, Lower(query))

\* max(model_matches, key=len): the first of the longest matches
RECURSIVE LongestFrom(_, _, _)
LongestFrom(ms, i, best) ==
    IF i > Len(ms) THEN best
    ELSE LongestFrom(ms, i + 1, IF Len(ms[i]) > Len(best) THEN ms[i] ELSE best)

NoProduct == ""
NoGen == -1

\* target_product of retrieve ("" for None)
TargetProduct(query) ==
    LET ql == Lower(query)
        ms == ModelMatches(ql)
    IN  IF Contains(ql, "zbook ultra 14") THEN "zbook ultra 14"
        ELSE IF Contains(ql, "zbook 8 14") THEN "zbook 8 14"
        ELSE IF Contains(ql, "zbook 8 16") THEN "zbook 8 16"
        ELSE IF Len(ms) > 0 THEN LongestFrom(ms, 1, "")
        ELSE NoProduct

\* target_gen of retrieve (NoGen for None): read only when a model code matched
TargetGen(query) ==
    LET ql == Lower(query)
        gs == GenMatches(ql)
    IN  IF Len(ModelMatches(ql)) > 0 /\ Len(gs) > 0 THEN ToInt(gs[1]) ELSE NoGen

(***************************************************************************)
(* Retriever.retrieve: heuristic boost of one candidate (hundredths)       *)
(***************************************************************************)
ProcBrands == {"intel", "amd", "core", "ryzen", "ultra", "i3", "i5", "i7", "i9"}
ProcUnits == {"ghz", "mhz", "cores", "kerne", "threads", "thread", "p-core", "e-core"}
Percentages ==
    {"85%", "85.5%", "86%", "87%", "88%", "88.5%", "89%", "90%", "91%", "92%",
     "93%", "94%", "95%"}
HasProcessorKeywords(tl) ==
    AnyIn({"processor", "cpu", "prozessor"}, tl)
    /\ (AnyIn(ProcBrands, tl) \/ AnyIn(ProcUnits, tl))
HasDisplayWord(tl) == AnyIn({"display", "screen", "bildschirm"}, tl)

SimilarityBoost(t) ==
    LET tl == TextLower(t)
        long == TextLen(t) > 200
    IN  IF Contains(tl, "performance") /\ long THEN 25
        ELSE IF (HasProcessorKeywords(tl)
                 \/ (AnyIn({"gpu", "graphics", "grafik"}, tl)
                     /\ AnyIn({"u300e", "i3-1315u", "core 3 100u", "core 5 120u",
                               "core 5 220u", "core 7 150u", "core 7 250u",
                               "core ultra 5", "core ultra 7", "processor",
                               "intel processor"}, tl)))
                /\ long THEN 24
        ELSE IF AnyIn({"processor", "cpu", "memory", "ram", "storage", "graphics", "gpu"}, tl)
                /\ long THEN 20
        ELSE IF AnyIn({"screen-to-body", "screen to body"}, tl) THEN 45
        ELSE IF AnyIn({"bezel", "display bezel", "screen bezel"}, tl)
                /\ (AnyIn({"ratio", "%"}, tl) \/ AnyIn(Percentages \ {"86%"}, tl)) THEN 40
        ELSE IF HasDisplayWord(tl) /\ AnyIn(Percentages, tl) THEN 38
        ELSE IF HasDisplayWord(tl)
                /\ (AnyIn({"nits", "cd/m2", "brightness", "helligkeit", "luminance",
                           "luminanz"}, tl)
                    \/ (Contains(tl, "300")
                        /\ AnyIn({"nits", "brightness", "helligkeit"}, tl))) THEN 35
        ELSE IF HasDisplayWord(tl)
                /\ (AnyIn({"resolution", "inch", "inches", "\"", "fhd", "uhd", "4k",
                           "1920", "2560", "3840"}, tl)
                    \/ AnyIn({"14", "15", "16"}, tl)) THEN 30
        ELSE IF AnyIn({"battery", "akku", "batterie", "power adapter", "power supply"}, tl)
                /\ AnyIn({"w", "wh", "watt", "capacity", "life", "laufzeit", "mah",
                          "hours", "stunden"}, tl) THEN 28
        ELSE IF AnyIn({"dimensions", "abmessungen", "size", "weight", "gewicht"}, tl)
                /\ (AnyIn({"mm", "inches", "kg", "lbs", "pounds", "g", "x", "cm"}, tl)
                    \/ AnyIn({"width", "height", "depth", "breite", "tiefe", "length"}, tl))
             THEN 26
        ELSE IF HasDisplayWord(tl) THEN 19
        ELSE IF Contains(tl, "dimensions")
                \/ (Contains(tl, "weight") /\ AnyIn({"kg", "lbs", "mm", "inches"}, tl)) THEN 18
        ELSE IF AnyIn({"battery", "akku"}, tl)
                \/ (Contains(tl, "power adapter") /\ AnyIn({"w", "wh"}, tl)) THEN 18
        ELSE IF Contains(tl, "performance") THEN 15
        ELSE IF AnyIn({"processor", "cpu", "memory", "ram", "storage", "graphics", "gpu",
                       "display", "battery", "dimensions", "weight"}, tl) THEN 10
        ELSE 0

Min(a, b) == IF a < b THEN a ELSE b
Max(a, b) == IF a > b THEN a ELSE b

\* the boosted similarity without the cap
AdjustedSimilarityUncapped(isSpec, distance, t) ==
    IF isSpec THEN (100 - distance) + SimilarityBoost(t) ELSE 100 - distance

\* similarity = 1 - distance, boosted and capped at 1.0 for a spec query
AdjustedSimilarity(isSpec, distance, t) ==
    IF isSpec THEN Min(100, (100 - distance) + SimilarityBoost(t)) ELSE 100 - distance

(***************************************************************************)
(* Retriever.retrieve: product / generation filtering of one candidate     *)
(***************************************************************************)
IsProcessorChunk(t) ==
    LET tl == TextLower(t)
    IN  (AnyIn({"processor", "prozessor", "cpu"}, tl)
         /\ (AnyIn(ProcBrands, tl) \/ AnyIn(ProcUnits, tl)))
        \/ ((Contains(t.body, "|") \/ Contains(t.body, "---") \/ Contains(tl, "table"))
            /\ AnyIn({"processor", "cpu", "core", "ultra", "intel", "amd"}, tl))

IsDisplayChunk(query, t) ==
    LET tl == TextLower(t)
        explicit == AnyIn({"screen-to-body", "screen to body"}, tl)
        pct == Contains(t.body, "%") \/ AnyIn(Percentages, tl)
    IN  IF IsScreenToBodyQuery(query)
        THEN explicit \/ (HasDisplayWord(tl) /\ pct) \/ HasDisplayWord(tl)
        ELSE HasDisplayWord(tl) /\ (explicit \/ pct)

HasProductInText(query, t) ==
    LET ql == Lower(query)
        tl == TextLower(t)
        target == Lower(TargetProduct(query))
    IN  Contains(tl, target)
        \/ (AnyIn({"thinkpad", "think pad"}, ql) /\ Contains(tl, "thinkpad " \o target))

GenInText(gen, t) ==
    LET g == ToStr(gen)
    IN  AnyIn({"gen " \o g, "gen" \o g, "generation " \o g,
               g \o "th generation", g \o "th gen"}, TextLower(t))

FilenameHasModel(target, docSource) ==
    IF docSource # "" THEN Contains(docSource, target) ELSE FALSE

FilenameHasGen(gen, docSource) ==
    LET g == ToStr(gen)
    IN  IF docSource # ""
        THEN AnyIn({"gen_" \o g, "gen" \o g, "generation_" \o g}, docSource)
        ELSE FALSE

RECURSIVE OtherModelsFrom(_, _, _, _)
OtherModelsFrom(ms, gs, target, i) ==
    IF i > Len(ms) THEN <<>>
    ELSE (IF ms[i] # target /\ Len(gs) > 0 THEN << <<ms[i], gs[1]>> >> ELSE <<>>)
         \o OtherModelsFrom(ms, gs, target, i + 1)

\* other_models: every model code of the text that is not the target, each
\* paired with the first generation number found anywhere in the text
OtherModels(target, t) ==
    LET tl == TextLower(t)
    IN  OtherModelsFrom(ModelMatches(tl), GenMatches(tl), target, 1)

HasConflictingModel(target, gen, t) ==
    LET om == OtherModels(target, t)
    IN  \E i \in 1..Len(om) : om[i][1] # target /\ om[i][2] # ToStr(gen)

\* product_in_chunk when the query names a product and a generation
ProductInChunk(query, t, docSource) ==
    LET target == Lower(TargetProduct(query))
        gen == TargetGen(query)
        inText == HasProductInText(query, t)
        genText == GenInText(gen, t)
        fModel == FilenameHasModel(target, docSource)
        fGen == FilenameHasGen(gen, docSource)
        noOther == Len(OtherModels(target, t)) = 0
    IN  IF IsProcessorQuery(query) /\ IsProcessorChunk(t)
        THEN (inText /\ genText) \/ (inText /\ fModel /\ fGen) \/ (inText /\ noOther)
             \/ (fModel /\ fGen /\ noOther)
             \/ (fModel /\ fGen /\ IsProcessorChunk(t) /\ noOther)
        ELSE IF IsScreenToBodyQuery(query)
        THEN (fModel /\ fGen) \/ (inText /\ genText) \/ (inText /\ fModel /\ fGen)
             \/ (inText /\ noOther) \/ (fModel /\ fGen /\ IsDisplayChunk(query, t))
             \/ (fModel /\ fGen /\ noOther)
        ELSE (inText /\ genText) \/ (inText /\ fModel /\ fGen) \/ (inText /\ noOther)
             \/ (fModel /\ fGen /\ noOther)

\* whether retrieve reads the owning document's filename for this candidate
NeedsFilename(query) == TargetProduct(query) # NoProduct /\ TargetGen(query) # NoGen

\* whether the candidate passes product filtering (is appended to the result)
FilterKeeps(query, t, docSource) ==
    IF TargetProduct(query) = NoProduct THEN TRUE
    ELSE IF TargetGen(query) # NoGen
         THEN IF HasConflictingModel(Lower(TargetProduct(query)), TargetGen(query), t)
              THEN FALSE
              ELSE ProductInChunk(query, t, docSource)
         ELSE HasProductInText(query, t)

(***************************************************************************)
(* Retriever.retrieve: the final sort of a spec query                      *)
(***************************************************************************)
SortPriority(query, t) ==
    LET tl == TextLower(t)
        s2b == IsScreenToBodyQuery(query)
        disp == AnyIn({"display", "screen"}, tl)
    IN  IF s2b /\ AnyIn({"screen-to-body", "screen to body"}, tl) THEN 1000
        ELSE IF s2b /\ disp /\ Contains(t.body, "%") THEN 500
        ELSE IF Contains(tl, "performance") /\ TextLen(t) > 200 THEN 1000
        ELSE IF HasProcessorKeywords(tl) THEN 950
        ELSE IF AnyIn({"battery", "akku"}, tl) /\ AnyIn({"w", "wh", "capacity"}, tl) THEN 900
        ELSE IF AnyIn({"weight", "gewicht"}, tl) /\ AnyIn({"kg", "lbs", "g"}, tl) THEN 850
        ELSE IF AnyIn({"dimensions", "abmessungen"}, tl) /\ AnyIn({"mm", "inches", "cm"}, tl)
             THEN 800
        ELSE IF disp /\ (AnyIn({"nits", "brightness", "helligkeit", "luminance"}, tl)
                         \/ (Contains(tl, "300") /\ AnyIn({"nits", "brightness"}, tl)))
             THEN 850
        ELSE IF disp /\ AnyIn({"inch", "resolution"}, tl) THEN 750
        ELSE IF AnyIn({"processor", "cpu", "memory", "ram", "storage"}, tl) THEN 700
        ELSE 0

RECURSIVE InsertDesc(_, _, _)
\* x placed after every element of the descending list whose key is >= its own
InsertDesc(sorted, x, key) ==
    IF sorted = <<>> THEN <<x>>
    ELSE IF key[Head(sorted).id] >= key[x.id]
         THEN <<Head(sorted)>> \o InsertDesc(Tail(sorted), x, key)
         ELSE <<x>> \o sorted

RECURSIVE SortDescFrom(_, _, _, _)
SortDescFrom(docs, i, acc, key) ==
    IF i > Len(docs) THEN acc
    ELSE SortDescFrom(docs, i + 1, InsertDesc(acc, docs[i], key), key)

\* list.sort(key=..., reverse=True) / sorted(..., reverse=True): stable, equal
\* keys keep their order; key is a function of the element's id
SortDesc(docs, key) == SortDescFrom(docs, 1, <<>>, key)

(***************************************************************************)
(* Inputs of the retrieval model: queries, documents, chunks               *)
(***************************************************************************)
QueryPool ==
    << "Wieviel RAM hat das Thinkpad E14?",
       "Wie hoch ist die Akku-Kapazitaet des Thinkpad E14 Gen 6?",
       "Akku ThinkPad P15v Gen 4",
       "Erzaehl mir etwas ueber Lenovo",
       "Welche Prozessoren hat das ThinkPad L16 Gen 2?",
       "Display Screen-to-Body Ratio ThinkPad E14 Gen 6" >>
QueryIds == 1..Len(QueryPool)

\* the document store: Document.filename by document id
DocFilename ==
    << "ThinkPad_E14.pdf", "ThinkPad_E14_Gen6.pdf", "ThinkPad_L16_Gen2.pdf" >>
DocIds == 1..Len(DocFilename)

\* the users, and Document.user_id by document id
UserIds == {1, 2}
DocOwner == << 1, 1, 2 >>

\* chunks that can be in the index: text, owning document, and the cosine
\* distance (hundredths) of their vector to the embedded query
ChunkPool ==
    << [text |-> PlainText("Memory: Up to 16GB DDR4 (2666MHz)"),
        document_id |-> 1, distance |-> 40],
       [text |-> PlainText("ThinkPad E14 Gen 6: battery 45Wh"),
        document_id |-> 2, distance |-> 40],
       [text |-> PlainText("ThinkPad L16 Gen 2: battery 57Wh"),
        document_id |-> 3, distance |-> 10],
       [text |-> PlainText("ThinkPad E14 Gen 6 battery 45Wh; ThinkPad L16 Gen 2 battery 57Wh"),
        document_id |-> 2, distance |-> 50],
       [text |-> PlainText("ThinkPad L16 Gen 2: battery 57Wh"),
        document_id |-> 2, distance |-> 5],
       [text |-> PlainText("ThinkPad P15v Gen 3: battery 57Wh"),
        document_id |-> 2, distance |-> 10],
       [text |-> [body |-> "PERFORMANCE | Processor | Intel Core Ultra 5 125U | 12 cores",
                  pad |-> 200],
        document_id |-> 3, distance |-> 30],
       [text |-> PlainText("Display: 14 inch WUXGA, 85.5%"),
        document_id |-> 2, distance |-> 60],
       [text |-> PlainText("ThinkPad L16 Gen 6 display: 16 inch, 88%"),
        document_id |-> 2, distance |-> 20] >>
ChunkIds == 1..Len(ChunkPool)

\* the largest number of vectors in the index
MaxIndex == 2

RECURSIVE NearestFirst(_)
\* the chunks of S by ascending distance (equal distances by id)
NearestFirst(S) ==
    IF S = {} THEN <<>>
    ELSE LET c == CHOOSE x \in S : \A y \in S :
                      \/ ChunkPool[x].distance < ChunkPool[y].distance
                      \/ (ChunkPool[x].distance = ChunkPool[y].distance /\ x <= y)
         IN  <<c>> \o NearestFirst(S \ {c})

(***************************************************************************)
(* The functions above, tabulated over the inputs of the model             *)
(***************************************************************************)
\* what retrieve and retrieve_with_reranking find out about the query
IsSpec == [q \in QueryIds |-> IsSpecQuery(QueryPool[q])]
IsProc == [q \in QueryIds |-> IsProcessorQuery(QueryPool[q])]
IsS2B == [q \in QueryIds |-> IsScreenToBodyQuery(QueryPool[q])]
ReadsFilename == [q \in QueryIds |-> NeedsFilename(QueryPool[q])]

\* target_product of the query, as the filter loop uses it
TargetProducts == [q \in QueryIds |-> TargetProduct(QueryPool[q])]

\* doc.filename.lower()
FilenameLower == [d \in DocIds |-> Lower(DocFilename[d])]

\* the values a cache entry can have, and doc_source = entry.lower()
CacheValues == {""} \cup {FilenameLower[d] : d \in DocIds}
DocSource == [v \in CacheValues |-> Lower(v)]

\* similarity of chunk c as retrieve computes it, by is_spec_query
Similarity ==
    [spec \in BOOLEAN |-> [c \in ChunkIds |->
        AdjustedSimilarity(spec, ChunkPool[c].distance, ChunkPool[c].text)]]

\* whether chunk c passes the product filter of query q, by doc_source
Keeps ==
    [q \in QueryIds |-> [c \in ChunkIds |->
        [src \in {"", DocSource[FilenameLower[ChunkPool[c].document_id]]} |->
            FilterKeeps(QueryPool[q], ChunkPool[c].text, src)]]]

\* the priority part of sort_key for chunk c under query q
Priority ==
    [q \in QueryIds |-> [c \in ChunkIds |-> SortPriority(QueryPool[q], ChunkPool[c].text)]]

(***************************************************************************)
(* State                                                                   *)
(***************************************************************************)
VARIABLES
    store,            \* the vector store object the Retriever was built with
    index,            \* the chunks in the index, nearest to the query first
    use_reranking,    \* Retriever.use_reranking (configuration)
    filename_cache,   \* _document_filename_cache: document id -> filename
    request,          \* the arguments of the running retrieval call
    r_pc,             \* position of the running retrieval call
    results,          \* what vector_store.query returned
    r_i,              \* index of the candidate the filter loop is at
    retrieved_docs,   \* the list retrieve builds
    outcome,          \* what the call returned or raised
    llm_max_tokens,   \* QAChain.llm.max_tokens, shared by all calls
    eval_max_tokens,  \* QAChain.eval_max_tokens (configuration)
    qa_request,       \* the arguments of the running QA call
    qa_pc,            \* position of the running QA call
    ordered_docs,     \* ordered_docs of answer_with_retrieved_docs
    context,          \* the rendered context: the list of its blocks
    original_max_tokens,  \* the local original_max_tokens of answer
    llm_call,         \* what the generation call received and did
    result,           \* the result dict of the chain
    response,         \* what query_rag answered
    rerank_call,      \* the running call of Reranker.rerank and its result
    kept,             \* a list retrieve returned, as a caller has kept it
    documents,        \* the documents table: user_id and status by document id
    chunks,           \* the chunks table: the rows, each with id and document_id
    collections,      \* the Chroma collections: the vectors of every user
    next_doc,         \* the id the next row of the documents table receives
    next_chunk,       \* stands for the next uuid4 the chunker draws
    workers,          \* the requests to the ingest endpoints that are running
    query_out,        \* what the last call of VectorStore.query returned
    threads,          \* the calls of QAChain.answer that run side by side
    embed_calls       \* the calls of retrieve so far and what each gave embed_text

rvars == << store, index, use_reranking, filename_cache, request, r_pc,
            results, r_i, retrieved_docs, outcome >>
qvars == << llm_max_tokens, eval_max_tokens, qa_request, qa_pc, ordered_docs,
            context, original_max_tokens, llm_call, result, response >>
kvars == << rerank_call >>
cvars == << kept >>
svars == << documents, chunks, collections, next_doc, next_chunk, workers, query_out >>
tvars == << threads >>
evars == << embed_calls >>
vars == << rvars, qvars, kvars, cvars, svars, tvars, evars >>

\* what the actions of one object leave alone: the state of the others
NotRetrieverVars == << qvars, kvars, cvars, svars, tvars, evars >>
NotQAVars == << rvars, kvars, cvars, svars, tvars, evars >>
NotRerankerVars == << rvars, qvars, cvars, svars, tvars, evars >>
NotStoreVars == << rvars, qvars, kvars, cvars, tvars, evars >>

\* Optional[int]: <<>> is None, <<n>> is n
None == <<>>
Some(n) == <<n>>

top_k == 5
rerank_top_k == 3

\* the n_results arguments tried by the callers
MaxN == 2
NArgs == {None} \cup {Some(n) : n \in 1..MaxN}

\* q is the position of the query text in QueryPool (0: no call is running)
NoRequest ==
    [op |-> "none", user_id |-> 0, q |-> 0, query |-> "", n_results |-> None,
     reranker |-> "None"]
NoOutcome ==
    [raised |-> "", docs |-> <<>>, rerank |-> "",
     reranker_out |-> [raised |-> FALSE, indices |-> <<>>]]

RInit ==
    /\ store \in {"VectorStore", "collection"}
    /\ \E S \in SUBSET ChunkIds : Cardinality(S) <= MaxIndex /\ index = NearestFirst(S)
    /\ use_reranking \in BOOLEAN
    /\ filename_cache = << >>
    /\ request = NoRequest
    /\ r_pc = "idle"
    /\ results = <<>>
    /\ r_i = 1
    /\ retrieved_docs = <<>>
    /\ outcome = NoOutcome

(***************************************************************************)
(* Retriever.retrieve_with_reranking: target_k and initial_k               *)
(***************************************************************************)
TargetK(q, n) ==
    LET base == IF n # None /\ n[1] # 0 THEN n[1] ELSE rerank_top_k
    IN  IF IsProc[q] THEN Max(base, 50)
        ELSE IF IsS2B[q] THEN Max(base, 40)
        ELSE base

InitialK(q, n) ==
    LET k == TargetK(q, n)
    IN  IF IsProc[q] THEN Max(k * 8, 80)
        ELSE IF IsS2B[q] THEN Max(k * 8, 60)
        ELSE IF IsSpec[q] THEN Max(k * 8, 40)
        ELSE Max(k * 3, 10)

\* n_results as retrieve receives it
RetrieveN(req) ==
    IF req.op = "retrieve_with_reranking" THEN InitialK(req.q, req.n_results)
    ELSE IF req.n_results = None THEN top_k ELSE req.n_results[1]

QueryNResults(req) ==
    IF IsSpec[req.q] THEN RetrieveN(req) * 8 ELSE RetrieveN(req)

(***************************************************************************)
(* Calls                                                                   *)
(***************************************************************************)
Retrieve(q, n) ==
    /\ r_pc = "idle"
    /\ request' = [op |-> "retrieve", user_id |-> 0, q |-> q, query |-> QueryPool[q],
                   n_results |-> n, reranker |-> "None"]
    /\ r_pc' = "query"
    /\ results' = <<>>
    /\ r_i' = 1
    /\ retrieved_docs' = <<>>
    /\ outcome' = NoOutcome
    /\ UNCHANGED NotRetrieverVars
    /\ UNCHANGED << store, index, use_reranking, filename_cache >>

RetrieveWithReranking(user_id, q, n, reranker) ==
    /\ r_pc = "idle"
    /\ request' = [op |-> "retrieve_with_reranking", user_id |-> user_id, q |-> q,
                   query |-> QueryPool[q], n_results |-> n, reranker |-> reranker]
    /\ r_pc' = "query"
    /\ results' = <<>>
    /\ r_i' = 1
    /\ retrieved_docs' = <<>>
    /\ outcome' = NoOutcome
    /\ UNCHANGED NotRetrieverVars
    /\ UNCHANGED << store, index, use_reranking, filename_cache >>

\* VectorStore.query(user_id, query_embeddings, n_results, where) called as
\* query(query_embeddings=..., n_results=..., where=...): the required
\* user_id is missing and the call raises TypeError
ScopedQueryRaises == store = "VectorStore"

\* a single-collection store answers with the (up to) k nearest chunks
CollectionQuery(k) == SubSeq(index, 1, Min(k, Len(index)))

StoreQuery ==
    /\ r_pc = "query"
    /\ IF ScopedQueryRaises
       THEN /\ outcome' = [outcome EXCEPT !.raised = "TypeError"]
            /\ r_pc' = "done"
            /\ UNCHANGED results
       ELSE /\ results' = CollectionQuery(QueryNResults(request))
            /\ r_pc' = "filter"
            /\ UNCHANGED outcome
    /\ UNCHANGED NotRetrieverVars
    /\ UNCHANGED << store, index, use_reranking, filename_cache, request, r_i,
                    retrieved_docs >>

(***************************************************************************)
(* Retriever.retrieve: the loop over the candidates                        *)
(***************************************************************************)
\* the filename retrieve reads for document d: the cached one, or the one
\* the lookup just stored (the document's filename lowercased, "" when the
\* database cannot be read)
LookedUp(d, dbOk) == IF dbOk THEN FilenameLower[d] ELSE ""

\* a lookup that leaves no entry when the database cannot be read
CacheAfterLookupUnlessFailed(cache, d, dbOk) ==
    IF dbOk THEN cache @@ (d :> LookedUp(d, dbOk)) ELSE cache

\* _document_filename_cache[document_id] = ..., in the try and in the except
CacheAfterLookup(cache, d, dbOk) == cache @@ (d :> LookedUp(d, dbOk))

\* _document_filename_cache.get(document_id, "")
CacheGet(cache, d) == IF d \in DOMAIN cache THEN cache[d] ELSE ""

CandidateDoc(q, c) ==
    [id |-> c,
     text |-> ChunkPool[c].text,
     document_id |-> ChunkPool[c].document_id,
     distance |-> ChunkPool[c].distance,
     similarity |-> Similarity[IsSpec[q]][c]]

FilterCandidate ==
    /\ r_pc = "filter"
    /\ r_i <= Len(results)
    /\ LET c == results[r_i]
           d == ChunkPool[c].document_id
           reads == ReadsFilename[request.q]
           miss == reads /\ d \notin DOMAIN filename_cache
       IN  \E dbOk \in (IF miss THEN BOOLEAN ELSE {TRUE}) :
             LET cache == IF miss THEN CacheAfterLookup(filename_cache, d, dbOk)
                          ELSE filename_cache
                 docSource == IF reads THEN DocSource[CacheGet(cache, d)] ELSE ""
             IN  /\ filename_cache' = cache
                 /\ retrieved_docs' =
                        IF Keeps[request.q][c][docSource]
                        THEN Append(retrieved_docs, CandidateDoc(request.q, c))
                        ELSE retrieved_docs
    /\ r_i' = r_i + 1
    /\ UNCHANGED NotRetrieverVars
    /\ UNCHANGED << store, index, use_reranking, request, r_pc, results, outcome >>

\* a key made of the similarity alone
SortKeyBySimilarity(q, doc) == doc.similarity

\* sort_key(doc) = priority + similarity, in hundredths
SortKey(q, doc) == Priority[q][doc.id] * 100 + doc.similarity

\* sort_key of every document of the list, by document id
SortKeys(q, docs) ==
    [c \in {docs[j].id : j \in 1..Len(docs)} |->
        SortKey(q, docs[CHOOSE j \in 1..Len(docs) : docs[j].id = c])]

\* the end of retrieve: the sort of a spec query, and the return
FinishRetrieve ==
    /\ r_pc = "filter"
    /\ r_i > Len(results)
    /\ LET sorted == IF IsSpec[request.q] /\ Len(results) > 0
                     THEN SortDesc(retrieved_docs,
                                   SortKeys(request.q, retrieved_docs))
                     ELSE retrieved_docs
       IN  /\ retrieved_docs' = sorted
           /\ IF request.op = "retrieve"
              THEN /\ outcome' = [outcome EXCEPT !.docs = sorted]
                   /\ r_pc' = "done"
              ELSE /\ r_pc' = "rerank"
                   /\ UNCHANGED outcome
    /\ UNCHANGED NotRetrieverVars
    /\ UNCHANGED << store, index, use_reranking, filename_cache, request, results,
                    r_i >>

(***************************************************************************)
(* Reranker.rerank                                                         *)
(***************************************************************************)
\* the scores model.predict gives the pairs: one of 1..MaxScore per text
MaxScore == 2
ScoreLists(len) == [1..len -> 1..MaxScore]

\* what model.predict(pairs) can do: raise, or return one score per pair
PredictOutcomes(len) ==
    {[raised |-> TRUE, scores |-> <<>>]}
        \cup {[raised |-> FALSE, scores |-> s] : s \in ScoreLists(len)}

RECURSIVE InsertByScore(_, _, _)
\* index i placed after every index of the list whose score is >= its own
InsertByScore(sorted, i, scores) ==
    IF sorted = <<>> THEN <<i>>
    ELSE IF scores[Head(sorted) + 1] >= scores[i + 1]
         THEN <<Head(sorted)>> \o InsertByScore(Tail(sorted), i, scores)
         ELSE <<i>> \o sorted

RECURSIVE SortedByScoreFrom(_, _, _)
SortedByScoreFrom(scores, i, acc) ==
    IF i >= Len(scores) THEN acc
    ELSE SortedByScoreFrom(scores, i + 1, InsertByScore(acc, i, scores))

\* sorted(range(len(scores)), key=lambda i: scores[i], reverse=True): the
\* 0-based indices, stable among equal scores
SortedByScore(scores) == SortedByScoreFrom(scores, 0, <<>>)

\* the result without the [:top_k] cut
TopIndicesUncut(scores, k) == SortedByScore(scores)

\* sorted(...)[:top_k], for top_k >= 0
TopIndices(scores, k) == SubSeq(SortedByScore(scores), 1, Min(k, Len(scores)))

\* Reranker.rerank(query, texts, top_k) on len texts, with what model.predict
\* does when it is called
RerankerRerank(len, predict, k) ==
    IF len = 0
    THEN [raised |-> FALSE, indices |-> <<>>, model_called |-> FALSE, scores |-> <<>>]
    ELSE IF predict.raised
    THEN [raised |-> TRUE, indices |-> <<>>, model_called |-> TRUE, scores |-> <<>>]
    ELSE [raised |-> FALSE, indices |-> TopIndices(predict.scores, k),
          model_called |-> TRUE, scores |-> predict.scores]

(***************************************************************************)
(* Retriever.retrieve_with_reranking: the rerank stage                     *)
(***************************************************************************)
\* the list without the [:k] cut
WholeList(seq, k) == seq

\* seq[:k], for k >= 0
Prefix(seq, k) == SubSeq(seq, 1, Min(k, Len(seq)))

\* Python list indexing: 0-based, negative indices count from the end
PyIndexOk(i, len) == -len <= i /\ i < len
PyItem(seq, i) == IF i >= 0 THEN seq[i + 1] ELSE seq[Len(seq) + i + 1]

\* what reranker.rerank can do: raise, or return a list of positions (the
\* position len is one past the end of the list it was given)
IndexLists(len) ==
    {<<>>} \cup {<<i>> : i \in 0..len} \cup {<<i, j>> : i \in 0..len, j \in 0..len}
RerankOutcomes(len) ==
    {[raised |-> TRUE, indices |-> <<>>]}
        \cup {[raised |-> FALSE, indices |-> l] : l \in IndexLists(len)}

\* what reranker.rerank(query, query_texts, top_k=target_k) does: the
\* repository's Reranker, or another object with a rerank method
RerankerOutputs(reranker, len, k) ==
    IF reranker = "Reranker"
    THEN {[raised |-> RerankerRerank(len, p, k).raised,
           indices |-> RerankerRerank(len, p, k).indices] : p \in PredictOutcomes(len)}
    ELSE RerankOutcomes(len)

\* the list comprehension outside the try: a bad position is not caught
RerankResultUncaught(retrieved, out, k) ==
    IF out.raised
    THEN [raised |-> "", docs |-> Prefix(retrieved, k), rerank |-> "raised",
          reranker_out |-> out]
    ELSE IF \A j \in 1..Len(out.indices) : PyIndexOk(out.indices[j], Len(retrieved))
    THEN [raised |-> "",
          docs |-> [j \in 1..Len(out.indices) |-> PyItem(retrieved, out.indices[j])],
          rerank |-> "reranked", reranker_out |-> out]
    ELSE [raised |-> "IndexError", docs |-> <<>>, rerank |-> "IndexError",
          reranker_out |-> out]

\* try: rerank, [retrieved[i] for i in reranked_indices]
\* except Exception: retrieved[:target_k]
RerankResult(retrieved, out, k) ==
    IF out.raised
    THEN [raised |-> "", docs |-> Prefix(retrieved, k), rerank |-> "raised",
          reranker_out |-> out]
    ELSE IF \A j \in 1..Len(out.indices) : PyIndexOk(out.indices[j], Len(retrieved))
    THEN [raised |-> "",
          docs |-> [j \in 1..Len(out.indices) |-> PyItem(retrieved, out.indices[j])],
          rerank |-> "reranked", reranker_out |-> out]
    ELSE [raised |-> "", docs |-> Prefix(retrieved, k), rerank |-> "IndexError",
          reranker_out |-> out]

Rerank ==
    /\ r_pc = "rerank"
    /\ LET k == TargetK(request.q, request.n_results)
       IN  IF ~use_reranking \/ request.reranker = "None"
           THEN outcome' = [outcome EXCEPT !.docs = Prefix(retrieved_docs, k),
                                           !.rerank = "skipped"]
           ELSE IF Len(retrieved_docs) > 0
           THEN \E out \in RerankerOutputs(request.reranker, Len(retrieved_docs), k) :
                  outcome' = RerankResult(retrieved_docs, out, k)
           ELSE outcome' = [outcome EXCEPT !.docs = retrieved_docs,
                                           !.rerank = "empty"]
    /\ r_pc' = "done"
    /\ UNCHANGED NotRetrieverVars
    /\ UNCHANGED << store, index, use_reranking, filename_cache, request, results,
                    r_i, retrieved_docs >>

\* the caller has its answer; the Retriever waits for the next call
Return ==
    /\ r_pc = "done"
    /\ r_pc' = "idle"
    /\ request' = NoRequest
    /\ results' = <<>>
    /\ r_i' = 1
    /\ retrieved_docs' = <<>>
    /\ outcome' = NoOutcome
    /\ UNCHANGED NotRetrieverVars
    /\ UNCHANGED << store, index, use_reranking, filename_cache >>

\* no list has been kept
NoKept == [q |-> 0, n_results |-> None, raised |-> "", docs |-> <<>>]

\* the caller of retrieve keeps what the call returned or raised, to compare
\* a later call with it
ReturnKept ==
    /\ r_pc = "done"
    /\ request.op = "retrieve"
    /\ kept = NoKept
    /\ kept' = [q |-> request.q, n_results |-> request.n_results,
                raised |-> outcome.raised, docs |-> outcome.docs]
    /\ r_pc' = "idle"
    /\ request' = NoRequest
    /\ results' = <<>>
    /\ r_i' = 1
    /\ retrieved_docs' = <<>>
    /\ outcome' = NoOutcome
    /\ UNCHANGED << qvars, kvars, svars, tvars, evars >>
    /\ UNCHANGED << store, index, use_reranking, filename_cache >>

RNext ==
    \/ \E q \in QueryIds, n \in NArgs : Retrieve(q, n)
    \/ \E user_id \in UserIds, q \in QueryIds, n \in NArgs,
          reranker \in {"None", "Reranker", "object"} :
          RetrieveWithReranking(user_id, q, n, reranker)
    \/ StoreQuery
    \/ FilterCandidate
    \/ FinishRetrieve
    \/ Rerank
    \/ Return

\* calls of retrieve alone, some of them with a caller that keeps the list
RepeatNext ==
    \/ \E q \in QueryIds, n \in NArgs : Retrieve(q, n)
    \/ StoreQuery
    \/ FilterCandidate
    \/ FinishRetrieve
    \/ Return
    \/ ReturnKept

(***************************************************************************)
(* QAChain.answer_with_retrieved_docs: classification of the candidates    *)
(***************************************************************************)
GeneralSpecWords == {"spezifikation", "specification", "specs", "technische"}
SpecificSpecWords ==
    {"akku", "battery", "gewicht", "weight", "dimensions", "abmessungen", "display",
     "screen", "prozessor", "cpu", "ram", "memory"}

IsGeneralSpec(question) ==
    AnyIn(GeneralSpecWords, Lower(question)) /\ ~AnyIn(SpecificSpecWords, Lower(question))

IsProcessorQuestion(question) ==
    AnyIn({"prozessor", "prozessoren", "processor", "processors", "cpu", "cpus",
           "welche prozessor", "welche processor"}, Lower(question))

\* is_important of the reordering of more than 50 candidates of a general
\* spec question
GeneralSpecImportant(t) ==
    LET tl == TextLower(t)
    IN  \/ HasProcessorKeywords(tl)
        \/ (AnyIn({"battery", "akku"}, tl) /\ AnyIn({"w", "wh", "capacity"}, tl))
        \/ (AnyIn({"weight", "gewicht"}, tl) /\ AnyIn({"kg", "lbs", "g"}, tl))
        \/ (AnyIn({"dimensions", "abmessungen"}, tl) /\ AnyIn({"mm", "inches", "cm"}, tl))
        \/ (AnyIn({"display", "screen"}, tl) /\ AnyIn({"nits", "inch", "resolution"}, tl))
        \/ (AnyIn({"memory", "ram", "speicher"}, tl) /\ AnyIn({"gb", "ddr4", "ddr5"}, tl))
        \/ (AnyIn({"storage", "ssd"}, tl) /\ AnyIn({"gb", "tb", "m.2"}, tl))

HasGpuTableWithProcessors(tl) ==
    AnyIn({"gpu", "graphics", "grafik"}, tl)
    /\ AnyIn({"u300e", "i3-1315u", "core 3 100u", "core 5 120u", "core 5 220u",
              "core 7 150u", "core 7 250u", "core ultra 5", "core ultra 7"}, tl)

HasProcessorModels(tl) ==
    AnyIn({"225h", "225u", "235h", "235u", "245h", "245u", "255h", "255u",
           "core ultra 5 225", "core ultra 5 235", "core ultra 5 245",
           "core ultra 7 155", "core ultra 7 165", "core ultra 7 155h",
           "core ultra 7 165h", "core ultra 5 125u", "core ultra 5 135u",
           "core ultra 5 125h", "core ultra 7 155u", "core ultra 7 165u"}, tl)

HasTableStructure(t) ==
    (Contains(t.body, "|") \/ Contains(t.body, "---") \/ Contains(TextLower(t), "table"))
    /\ AnyIn({"processor", "cpu", "core", "ultra", "intel", "amd"}, TextLower(t))

\* has_processor_table: the chunk goes to processor_chunks for a processor
\* question
HasProcessorTable(t) ==
    \/ (Contains(t.body, "|") /\ Contains(TextLower(t), "processor"))
    \/ (HasTableStructure(t) /\ HasProcessorModels(TextLower(t)))
    \/ (HasTableStructure(t) /\ HasProcessorKeywords(TextLower(t)))

\* the first if/elif chain that sets is_important (its first branch, the
\* processor chunk of a processor question, sets nothing)
ImportantBySpecType(t) ==
    LET tl == TextLower(t)
    IN  \/ HasProcessorKeywords(tl) \/ HasGpuTableWithProcessors(tl)
        \/ HasProcessorModels(tl) \/ HasTableStructure(t)
        \/ (AnyIn({"memory", "ram", "speicher", "arbeitsspeicher"}, tl)
            /\ AnyIn({"gb", "ddr4", "ddr5", "ddr3", "sodimm"}, tl))
        \/ (AnyIn({"storage", "ssd", "hdd"}, tl) /\ AnyIn({"gb", "tb", "m.2", "capacity"}, tl))
        \/ (AnyIn({"battery", "akku"}, tl) /\ AnyIn({"w", "wh", "capacity"}, tl))
        \/ (AnyIn({"weight", "gewicht"}, tl) /\ AnyIn({"kg", "lbs", "g"}, tl))
        \/ (AnyIn({"dimensions", "abmessungen"}, tl) /\ AnyIn({"mm", "inches", "cm"}, tl))

\* the second if/elif chain, which runs for every chunk
ImportantByDisplay(t) ==
    LET tl == TextLower(t)
    IN  \/ AnyIn({"screen-to-body", "screen to body"}, tl)
        \/ (AnyIn({"bezel", "display bezel", "screen bezel"}, tl)
            /\ (AnyIn({"ratio", "%"}, tl) \/ AnyIn(Percentages, tl)))
        \/ (AnyIn({"display", "screen"}, tl) /\ AnyIn(Percentages, tl))
        \/ (AnyIn({"display", "screen"}, tl)
            /\ AnyIn({"nits", "inch", "resolution", "fhd", "uhd", "4k"}, tl))
        \/ (AnyIn({"graphics", "gpu", "grafik"}, tl)
            /\ AnyIn({"intel", "amd", "nvidia", "arc", "radeon"}, tl))

\* whether the chunk is appended to processor_chunks
InProcessorChunks(isProcQuestion, t) == isProcQuestion /\ HasProcessorTable(t)

\* is_important when the bucket is chosen: a chunk put into processor_chunks
\* skips the first chain but not the second
IsImportant(isProcQuestion, t) ==
    \/ (~InProcessorChunks(isProcQuestion, t) /\ ImportantBySpecType(t))
    \/ ImportantByDisplay(t)

(***************************************************************************)
(* Citation markers in the answer                                          *)
(***************************************************************************)
\* r'(?:\[)?Quelle\s+(\d+)(?:\])?' (IGNORECASE) tried at position i of the
\* lower-cased answer: <<end, digits>> of the match, or <<0, "">>
SingleAt(s, i) ==
    LET q == IF StartsAt(s, i, "[") /\ StartsAt(s, i + 1, "quelle") THEN i + 1 ELSE i
        sp == SpaceRunEnd(s, q + 6)
        e == DigitRunEnd(s, sp)
    IN  IF StartsAt(s, q, "quelle") /\ sp > q + 6 /\ e > sp
        THEN <<IF StartsAt(s, e, "]") THEN e + 1 ELSE e, SubSeq(s, sp, e - 1)>>
        ELSE <<0, "">>

RECURSIVE SingleMatchesFrom(_, _)
SingleMatchesFrom(s, i) ==
    IF i > Len(s) THEN {}
    ELSE IF SingleAt(s, i)[1] > 0
         THEN {ToInt(SingleAt(s, i)[2])} \cup SingleMatchesFrom(s, SingleAt(s, i)[1])
         ELSE SingleMatchesFrom(s, i + 1)

\* r'Quelle\s+(\d+)\s*-\s*(\d+)' (IGNORECASE) tried at position i:
\* <<end, first digits, second digits>> or <<0, "", "">>
RangeAt(s, i) ==
    LET sp == SpaceRunEnd(s, i + 6)
        e1 == DigitRunEnd(s, sp)
        dash == SpaceRunEnd(s, e1)
        b == SpaceRunEnd(s, dash + 1)
        e2 == DigitRunEnd(s, b)
    IN  IF StartsAt(s, i, "quelle") /\ sp > i + 6 /\ e1 > sp /\ StartsAt(s, dash, "-")
           /\ e2 > b
        THEN <<e2, SubSeq(s, sp, e1 - 1), SubSeq(s, b, e2 - 1)>>
        ELSE <<0, "", "">>

RECURSIVE RangeMatchesFrom(_, _)
RangeMatchesFrom(s, i) ==
    IF i > Len(s) THEN {}
    ELSE IF RangeAt(s, i)[1] > 0
         THEN (ToInt(RangeAt(s, i)[2])..ToInt(RangeAt(s, i)[3]))
                  \cup RangeMatchesFrom(s, RangeAt(s, i)[1])
         ELSE RangeMatchesFrom(s, i + 1)

\* source_numbers: every number of a single marker and of a range
SourceNumbers(answer) ==
    SingleMatchesFrom(Lower(answer), 1) \cup RangeMatchesFrom(Lower(answer), 1)

\* answer.strip() == ""
IsBlank(s) == \A i \in 1..Len(s) : IsSpaceCh(CharAt(s, i))

(***************************************************************************)
(* Inputs of the QA model: questions, candidate lists, generation results  *)
(***************************************************************************)
QuestionPool ==
    << "Wie hoch ist die Akku-Kapazitaet?",
       "Welche Prozessoren gibt es?",
       "Technische Spezifikationen des ThinkPad" >>
QuestionIds == 1..Len(QuestionPool)

\* the texts of the candidates; the last one is a chunk of a store that was
\* filled with a large chunking.chunk_size
QATexts ==
    << PlainText("Lenovo ThinkPad product overview"),
       PlainText("Battery: 45Wh"),
       PlainText("| Processor | Intel Core Ultra 5 125U |"),
       PlainText("Screen-to-body ratio: 85.5%"),
       PlainText("| Processor | Intel Core Ultra 5 125U | Graphics | Intel Arc |"),
       [body |-> "Lenovo ThinkPad hardware maintenance manual", pad |-> 39957] >>
QATextSet == {QATexts[k] : k \in 1..Len(QATexts)}

\* a candidate list is described by the texts and the similarities
\* (hundredths) that repeat along it
DocProfiles ==
    << [texts |-> <<1, 2, 3, 4, 1>>, sims |-> <<70, 90, 90, 50>>],
       [texts |-> <<1, 5, 2, 3>>, sims |-> <<40, 80, 80, 60, 95>>],
       [texts |-> <<6>>, sims |-> <<60, 75, 75>>] >>
ProfileIds == 1..Len(DocProfiles)

Cyclic(seq, j) == seq[((j - 1) % Len(seq)) + 1]

\* the candidate list of profile p with n entries; the id j stands for the
\* j-th chunk id (a uuid4 string)
DocList(p, n) ==
    [j \in 1..n |->
        [id |-> j,
         text |-> QATexts[Cyclic(DocProfiles[p].texts, j)],
         similarity |-> Cyclic(DocProfiles[p].sims, j)]]

\* len(str(uuid.uuid4()))
IdLen == 36

\* MAX_CHUNKS = 30 if eval_mode else 50
MAX_CHUNKS(eval_mode) == IF eval_mode THEN 30 ELSE 50
\* MAX_CONTEXT_TOKENS = 80000 if eval_mode else 100000
MAX_CONTEXT_TOKENS(eval_mode) == IF eval_mode THEN 80000 ELSE 100000

\* the lengths of the candidate lists tried: the short ones, and one more
\* than each chunk cap
MaxDocs == 12
DocLens == (0..MaxDocs) \cup {MAX_CHUNKS(TRUE) + 1, MAX_CHUNKS(FALSE) + 1}

\* what the generation call does: it returns a text, or it raises with a
\* message
AnswerPool ==
    << "Der Akku hat 45Wh [Quelle 1].",
       "Die Werte stammen aus Quelle 2 und Quelle 4.",
       "siehe quelle 3",
       "Quelle 2-4",
       "Quelle 11-13",
       "Quelle 0 und Quelle 99",
       "Keine Angabe in den Dokumenten.",
       "" >>
ErrorPool == << "timeout" >>
LLMOutcomes ==
    {[raised |-> FALSE, text |-> AnswerPool[a]] : a \in 1..Len(AnswerPool)}
        \cup {[raised |-> TRUE, text |-> ErrorPool[e]] : e \in 1..Len(ErrorPool)}
NoLLMOutcome == [raised |-> FALSE, text |-> "-"]

NoAnswerText ==
    "Entschuldigung, ich konnte keine Antwort generieren. Bitte versuchen Sie es mit einer anderen Formulierung."

\* the answer QAChain.answer puts into its result
AnswerText(out) ==
    IF out.raised THEN "Fehler bei der Generierung der Antwort: " \o out.text
    ELSE IF out.text = "" \/ IsBlank(out.text) THEN NoAnswerText
    ELSE out.text

(***************************************************************************)
(* The functions of the QA chain, tabulated over the inputs of the model   *)
(***************************************************************************)
QIsGeneralSpec == [q \in QuestionIds |-> IsGeneralSpec(QuestionPool[q])]
QIsProcessor == [q \in QuestionIds |-> IsProcessorQuestion(QuestionPool[q])]
TextGeneralImportant == [t \in QATextSet |-> GeneralSpecImportant(t)]
TextInProcessorChunks ==
    [isProc \in BOOLEAN |-> [t \in QATextSet |-> InProcessorChunks(isProc, t)]]
TextIsImportant ==
    [isProc \in BOOLEAN |-> [t \in QATextSet |-> IsImportant(isProc, t)]]
TextLength == [t \in QATextSet |-> TextLen(t)]
Answer == [out \in LLMOutcomes |-> AnswerText(out)]
Cited == [out \in LLMOutcomes |-> SourceNumbers(AnswerText(out))]

(***************************************************************************)
(* QAChain.answer_with_retrieved_docs: ordering and trimming               *)
(***************************************************************************)
\* [doc for doc in docs if Test(doc)], for a test on the text
Important(docs, table) ==
    LET Test(doc) == table[doc.text] IN SelectSeq(docs, Test)
NotImportant(docs, table) ==
    LET Test(doc) == ~table[doc.text] IN SelectSeq(docs, Test)

\* a general spec question with more than 50 candidates: the important
\* chunks first
GeneralSpecReorder(q, docs) ==
    IF QIsGeneralSpec[q] /\ Len(docs) > 50
    THEN Important(docs, TextGeneralImportant) \o NotImportant(docs, TextGeneralImportant)
    ELSE docs

\* the three lists the partition loop fills
ProcessorChunks(q, docs) == Important(docs, TextInProcessorChunks[QIsProcessor[q]])
ImportantSpecChunks(q, docs) == Important(docs, TextIsImportant[QIsProcessor[q]])
OtherChunks(q, docs) == NotImportant(docs, TextIsImportant[QIsProcessor[q]])

\* ordered_docs before the cap
Ordered(q, docs) ==
    IF QIsProcessor[q]
    THEN ProcessorChunks(q, docs) \o ImportantSpecChunks(q, docs) \o OtherChunks(q, docs)
    ELSE ImportantSpecChunks(q, docs) \o OtherChunks(q, docs)

\* a cap that keeps the end of the list
CappedTail(q, eval_mode, docs) ==
    LET all == Ordered(q, docs)
        max == MAX_CHUNKS(eval_mode)
    IN  IF Len(all) <= max THEN all ELSE SubSeq(all, Len(all) - max + 1, Len(all))

\* the cap of MAX_CHUNKS on ordered_docs
Capped(q, eval_mode, docs) ==
    LET max == MAX_CHUNKS(eval_mode)
        proc == ProcessorChunks(q, docs)
        imp == ImportantSpecChunks(q, docs)
        oth == OtherChunks(q, docs)
        slots == max - Len(proc)
        limited_important == Prefix(imp, Min(slots, Len(imp)))
        left == slots - Len(limited_important)
    IN  IF Len(Ordered(q, docs)) <= max THEN Ordered(q, docs)
        ELSE IF QIsProcessor[q]
        THEN IF slots > 0
             THEN proc \o limited_important \o (IF left > 0 THEN Prefix(oth, left) ELSE <<>>)
             ELSE Prefix(proc, max)
        ELSE IF Len(imp) >= max THEN Prefix(imp, max)
        ELSE imp \o Prefix(oth, max - Len(imp))

\* ordered_docs as the size check finds it
OrderedDocs(q, eval_mode, docs) == Capped(q, eval_mode, GeneralSpecReorder(q, docs))

(***************************************************************************)
(* QAChain.format_context(docs, preserve_order=True) and its length        *)
(***************************************************************************)
\* one block per entry of enumerate(all_chunks, 1)
FormatContextFromZero(docs) ==
    [i \in 1..Len(docs) |->
        [number |-> i - 1, chunk_id |-> docs[i].id, text |-> docs[i].text]]

FormatContext(docs) ==
    [i \in 1..Len(docs) |->
        [number |-> i, chunk_id |-> docs[i].id, text |-> docs[i].text]]

\* len(str(n))
StrLen(n) == Len(ToStr(n))

\* len(f"[Quelle {i} - {chunk_id}]:\n{text}\n")
BlockLen(block) == 8 + StrLen(block.number) + 3 + IdLen + 3 + TextLength[block.text] + 1

RECURSIVE BlocksLen(_, _)
BlocksLen(ctx, i) == IF i > Len(ctx) THEN 0 ELSE BlockLen(ctx[i]) + BlocksLen(ctx, i + 1)

\* len("\n---\n".join(context_parts))
ContextLen(ctx) == IF Len(ctx) = 0 THEN 0 ELSE BlocksLen(ctx, 1) + 5 * (Len(ctx) - 1)

\* estimated_tokens > MAX_CONTEXT_TOKENS, with estimated_tokens = len / 3.5
OverBudget(len, eval_mode) == 2 * len > 7 * MAX_CONTEXT_TOKENS(eval_mode)

RECURSIVE TextChars(_, _)
\* sum(len(doc.get("text", "")) for doc in ordered_docs)
TextChars(docs, i) ==
    IF i > Len(docs) THEN 0 ELSE TextLength[docs[i].text] + TextChars(docs, i + 1)

\* ordered_docs after the size check: with too large a context and more text
\* than target_chars, the first max_chunks_by_size chunks
SizeChecked(eval_mode, docs) ==
    LET target_chars == (7 * MAX_CONTEXT_TOKENS(eval_mode)) \div 2
        current_chars == TextChars(docs, 1)
        by_size == IF current_chars > 0
                   THEN (target_chars * Len(docs)) \div current_chars
                   ELSE MAX_CHUNKS(eval_mode)
        max_chunks_by_size == Max(10, Min(by_size, MAX_CHUNKS(eval_mode)))
    IN  IF OverBudget(ContextLen(FormatContext(docs)), eval_mode)
           /\ current_chars > target_chars
           /\ Len(docs) > max_chunks_by_size
        THEN Prefix(docs, max_chunks_by_size)
        ELSE docs

(***************************************************************************)
(* Resolution of the citations                                             *)
(***************************************************************************)
RECURSIVE CitedSourcesFromZero(_, _, _)
CitedSourcesFromZero(docs, numbers, i) ==
    IF i > Len(docs) THEN <<>>
    ELSE (IF (i - 1) \in numbers
          THEN << [chunk_id |-> docs[i].id, similarity |-> docs[i].similarity,
                   text |-> docs[i].text, source_number |-> i - 1] >>
          ELSE <<>>) \o CitedSourcesFromZero(docs, numbers, i + 1)

RECURSIVE CitedSources(_, _, _)
\* for i, doc in enumerate(ordered_docs, 1): if i in source_numbers: append
CitedSources(docs, numbers, i) ==
    IF i > Len(docs) THEN <<>>
    ELSE (IF i \in numbers
          THEN << [chunk_id |-> docs[i].id, similarity |-> docs[i].similarity,
                   text |-> docs[i].text, source_number |-> i] >>
          ELSE <<>>) \o CitedSources(docs, numbers, i + 1)

\* the key of every entry of the list, by id
SimilarityKeys(docs) ==
    [c \in {docs[j].id : j \in 1..Len(docs)} |->
        docs[CHOOSE j \in 1..Len(docs) : docs[j].id = c].similarity]

\* sorted(ordered_docs, key=similarity, reverse=True)[:10] without the cut
TopSourcesUncut(docs) ==
    LET top == SortDesc(docs, SimilarityKeys(docs))
    IN  [j \in 1..Len(top) |->
            [chunk_id |-> top[j].id, similarity |-> top[j].similarity,
             text |-> top[j].text]]

\* sorted(ordered_docs, key=similarity, reverse=True)[:10]
TopSources(docs) ==
    LET top == Prefix(SortDesc(docs, SimilarityKeys(docs)), 10)
    IN  [j \in 1..Len(top) |->
            [chunk_id |-> top[j].id, similarity |-> top[j].similarity,
             text |-> top[j].text]]

\* sources that fall back to the top ones whenever no cited entry exists
SourcesOrFallback(docs, numbers) ==
    IF CitedSources(docs, numbers, 1) # <<>> THEN CitedSources(docs, numbers, 1)
    ELSE TopSources(docs)

\* result["sources"]
Sources(docs, numbers) ==
    IF numbers # {} THEN CitedSources(docs, numbers, 1) ELSE TopSources(docs)

(***************************************************************************)
(* The QA chain: state after construction                                  *)
(***************************************************************************)
\* qa_config.get("max_tokens", 2000)
default_max_tokens == 2000

NoQARequest ==
    [caller |-> "none", q |-> 0, question |-> "", retrieved_docs |-> <<>>,
     eval_mode |-> FALSE, ground_truth |-> None]
NoLLMCall == [made |-> FALSE, context |-> <<>>, max_tokens |-> 0, out |-> NoLLMOutcome]
NoResult == [answer |-> "", sources |-> <<>>, used_chunks |-> <<>>]
NoResponse == [status |-> 0, answer |-> "", sources |-> <<>>]

QAIdle ==
    /\ qa_request = NoQARequest
    /\ qa_pc = "idle"
    /\ ordered_docs = <<>>
    /\ context = <<>>
    /\ original_max_tokens = 0
    /\ llm_call = NoLLMCall
    /\ result = NoResult
    /\ response = NoResponse

\* eval_max_tokens is None unless the configuration sets it
QInit ==
    /\ llm_max_tokens = default_max_tokens
    /\ eval_max_tokens \in {None, Some(500)}
    /\ QAIdle

(***************************************************************************)
(* Calls of the QA chain                                                   *)
(***************************************************************************)
\* ground_truth arguments: None, or a text of this length
GroundTruths == {None, Some(300)}

\* a script or the evaluation calls answer_with_retrieved_docs
AnswerWithRetrievedDocs(q, docs, eval_mode, ground_truth) ==
    /\ qa_pc = "idle"
    /\ qa_request' = [caller |-> "direct", q |-> q, question |-> QuestionPool[q],
                      retrieved_docs |-> docs, eval_mode |-> eval_mode,
                      ground_truth |-> ground_truth]
    /\ qa_pc' = "order"
    /\ UNCHANGED << llm_max_tokens, eval_max_tokens, ordered_docs, context,
                    original_max_tokens, llm_call, result, response >>
    /\ UNCHANGED NotQAVars

\* query_rag with the list the retriever handed it: no documents is a 404,
\* else the chain is called with its default mode
QueryRag(q, docs) ==
    /\ qa_pc = "idle"
    /\ qa_request' = [caller |-> "query_rag", q |-> q, question |-> QuestionPool[q],
                      retrieved_docs |-> docs, eval_mode |-> FALSE,
                      ground_truth |-> None]
    /\ IF Len(docs) = 0
       THEN /\ response' = [NoResponse EXCEPT !.status = 404]
            /\ qa_pc' = "done"
       ELSE /\ qa_pc' = "order"
            /\ UNCHANGED response
    /\ UNCHANGED << llm_max_tokens, eval_max_tokens, ordered_docs, context,
                    original_max_tokens, llm_call, result >>
    /\ UNCHANGED NotQAVars

\* the reordering, the partition and the chunk cap
OrderDocs ==
    /\ qa_pc = "order"
    /\ ordered_docs' =
           OrderedDocs(qa_request.q, qa_request.eval_mode, qa_request.retrieved_docs)
    /\ qa_pc' = "render"
    /\ UNCHANGED << llm_max_tokens, eval_max_tokens, qa_request, context,
                    original_max_tokens, llm_call, result, response >>
    /\ UNCHANGED NotQAVars

\* format_context, the size check, and format_context again on the list the
\* size check cut (the same rendering when it cut nothing)
RenderContext ==
    /\ qa_pc = "render"
    /\ ordered_docs' = SizeChecked(qa_request.eval_mode, ordered_docs)
    /\ context' = FormatContext(ordered_docs')
    /\ qa_pc' = "prepare"
    /\ UNCHANGED << llm_max_tokens, eval_max_tokens, qa_request,
                    original_max_tokens, llm_call, result, response >>
    /\ UNCHANGED NotQAVars

\* llm.max_tokens after the eval branch of answer
EvalLimited(req, current) ==
    IF req.eval_mode /\ req.ground_truth # None /\ eval_max_tokens # None
    THEN Min(eval_max_tokens[1], Max(50, req.ground_truth[1] \div 3) + 50)
    ELSE current

\* QAChain.answer up to the generation call: the token limit of this call
PrepareAnswer ==
    /\ qa_pc = "prepare"
    /\ LET limit == EvalLimited(qa_request, llm_max_tokens)
       IN  /\ original_max_tokens' = limit
           /\ llm_max_tokens' = IF QIsProcessor[qa_request.q] THEN Max(limit, 3000)
                                ELSE limit
    /\ qa_pc' = "invoke"
    /\ UNCHANGED << eval_max_tokens, qa_request, ordered_docs, context, llm_call,
                    result, response >>
    /\ UNCHANGED NotQAVars

\* llm.max_tokens after a generation call that returned
Restored(req, current, original) ==
    IF req.eval_mode /\ eval_max_tokens # None THEN default_max_tokens
    ELSE IF QIsProcessor[req.q] THEN original
    ELSE current

\* the generation call and the rest of answer: the limit is put back only
\* when the call returned
Invoke ==
    /\ qa_pc = "invoke"
    /\ \E out \in LLMOutcomes :
         /\ llm_call' = [made |-> TRUE, context |-> context,
                         max_tokens |-> llm_max_tokens, out |-> out]
         /\ llm_max_tokens' = IF out.raised THEN llm_max_tokens
                              ELSE Restored(qa_request, llm_max_tokens,
                                            original_max_tokens)
         /\ result' = [NoResult EXCEPT !.answer = Answer[out]]
    /\ qa_pc' = "resolve"
    /\ UNCHANGED << eval_max_tokens, qa_request, ordered_docs, context,
                    original_max_tokens, response >>
    /\ UNCHANGED NotQAVars

\* the citations of the answer, result["sources"] and result["used_chunks"]
ResolveSources ==
    /\ qa_pc = "resolve"
    /\ result' = [result EXCEPT !.sources = Sources(ordered_docs, Cited[llm_call.out]),
                                !.used_chunks = ordered_docs]
    /\ qa_pc' = "respond"
    /\ UNCHANGED << llm_max_tokens, eval_max_tokens, qa_request, ordered_docs,
                    context, original_max_tokens, llm_call, response >>
    /\ UNCHANGED NotQAVars

\* Optional[int] of source.get("source_number")
SourceNumberOf(source) ==
    IF "source_number" \in DOMAIN source THEN Some(source.source_number) ELSE None

\* the sources of the QueryResponse
ResponseSources(sources) ==
    [j \in 1..Len(sources) |->
        [chunk_id |-> sources[j].chunk_id,
         source_number |-> SourceNumberOf(sources[j])]]

\* answer_with_retrieved_docs returns; query_rag builds its QueryResponse
Respond ==
    /\ qa_pc = "respond"
    /\ response' = IF qa_request.caller = "query_rag"
                   THEN [status |-> 200, answer |-> result.answer,
                         sources |-> ResponseSources(result.sources)]
                   ELSE response
    /\ qa_pc' = "done"
    /\ UNCHANGED << llm_max_tokens, eval_max_tokens, qa_request, ordered_docs,
                    context, original_max_tokens, llm_call, result >>
    /\ UNCHANGED NotQAVars

\* the caller has its answer; the chain waits for the next call
QAReturn ==
    /\ qa_pc = "done"
    /\ qa_request' = NoQARequest
    /\ qa_pc' = "idle"
    /\ ordered_docs' = <<>>
    /\ context' = <<>>
    /\ original_max_tokens' = 0
    /\ llm_call' = NoLLMCall
    /\ result' = NoResult
    /\ response' = NoResponse
    /\ UNCHANGED << llm_max_tokens, eval_max_tokens >>
    /\ UNCHANGED NotQAVars

QNext ==
    \/ \E q \in QuestionIds, p \in ProfileIds, n \in DocLens, eval_mode \in BOOLEAN,
          ground_truth \in GroundTruths :
          AnswerWithRetrievedDocs(q, DocList(p, n), eval_mode, ground_truth)
    \/ \E q \in QuestionIds, p \in ProfileIds, n \in DocLens : QueryRag(q, DocList(p, n))
    \/ OrderDocs
    \/ RenderContext
    \/ PrepareAnswer
    \/ Invoke
    \/ ResolveSources
    \/ Respond
    \/ QAReturn

(***************************************************************************)
(* Calls of Reranker.rerank on its own                                     *)
(***************************************************************************)
\* the numbers of texts and the top_k arguments tried
MaxTexts == 4
MaxTopK == 5

NoRerankCall ==
    [done |-> FALSE, len |-> 0, top_k |-> 0,
     out |-> [raised |-> FALSE, indices |-> <<>>, model_called |-> FALSE,
              scores |-> <<>>]]

KInit == rerank_call = NoRerankCall

\* rerank(query, texts, top_k) with len texts runs to its end
RerankerCall(len, k) ==
    /\ ~rerank_call.done
    /\ \E predict \in PredictOutcomes(len) :
         rerank_call' = [done |-> TRUE, len |-> len, top_k |-> k,
                         out |-> RerankerRerank(len, predict, k)]
    /\ UNCHANGED NotRerankerVars

\* the caller has the indices
RerankerReturn ==
    /\ rerank_call.done
    /\ rerank_call' = NoRerankCall
    /\ UNCHANGED NotRerankerVars

KNext ==
    \/ \E len \in 0..MaxTexts, k \in 0..MaxTopK : RerankerCall(len, k)
    \/ RerankerReturn

(***************************************************************************)
(* The documents table, the chunks table and the VectorStore               *)
(***************************************************************************)
\* the largest number of rows the documents table ever received, and the
\* number of uuid4 ids the chunker draws
MaxStoredDocs == 2
MaxChunkIds == 2

WorkerIds == {1, 2}

NoWorker == [op |-> "none", pc |-> "idle", todo |-> <<>>, response |-> ""]
NoQueryOut == [user_id |-> 0, vectors |-> {}]

\* an empty database and an empty Chroma directory
SInit ==
    /\ documents = << >>
    /\ chunks = {}
    /\ collections = [u \in UserIds |-> {}]
    /\ next_doc = 1
    /\ next_chunk = 1
    /\ workers = [w \in WorkerIds |-> NoWorker]
    /\ query_out = NoQueryOut

\* update_document_status: nothing happens when the row is gone
UpdateDocumentStatus(docs, d, status) ==
    IF d \in DOMAIN docs THEN [docs EXCEPT ![d].status = status] ELSE docs

\* delete_document: the row, and by the cascade of Document.chunks its chunks
WithoutDocument(docs, d) == [x \in (DOMAIN docs) \ {d} |-> docs[x]]
WithoutChunksOf(rows, d) == {c \in rows : c.document_id # d}

RECURSIVE Ascending(_)
\* get_all_documents: the rows in the order of their ids
Ascending(S) ==
    IF S = {} THEN <<>>
    ELSE LET least == CHOOSE x \in S : \A y \in S : x <= y
         IN  <<least>> \o Ascending(S \ {least})

\* add_documents(self, user_id, texts, embeddings, metadatas, ids) raises
\* TypeError when it is called without user_id
AddDocumentsRaises(has_user_id) == ~has_user_id

\* collection.add on the collection of the user
AddDocuments(cols, u, vectors) == [cols EXCEPT ![u] = @ \cup vectors]

\* collection.delete(ids=ids) on the collection of the user
DeleteDocuments(cols, u, ids) == [cols EXCEPT ![u] = {v \in @ : v.id \notin ids}]

\* collection.query on the collection of the user
VectorStoreQuery(cols, u) == cols[u]

(***************************************************************************)
(* scripts/ingest.py: ingest_file                                          *)
(***************************************************************************)
\* the document row is created; loading the file, chunking it or embedding
\* the chunks can raise, and the script then returns False
IngestFile(u, ends) ==
    /\ next_doc <= MaxStoredDocs
    /\ next_chunk <= MaxChunkIds
    /\ LET d == next_doc
           row == [id |-> next_chunk, document_id |-> d]
       IN  /\ documents' = documents @@ (d :> [user_id |-> u, status |-> "uploaded"])
           /\ next_doc' = next_doc + 1
           /\ IF ends = "load raises"
              THEN UNCHANGED << chunks, next_chunk, collections >>
              ELSE /\ chunks' = chunks \cup {row}
                   /\ next_chunk' = next_chunk + 1
                   /\ IF ends = "embed raises" \/ AddDocumentsRaises(TRUE)
                      THEN UNCHANGED collections
                      ELSE collections' = AddDocuments(collections, u, {row})
    /\ UNCHANGED << workers, query_out >>
    /\ UNCHANGED NotStoreVars

(***************************************************************************)
(* backend/api/documents.py: the ingest endpoints                          *)
(***************************************************************************)
\* ingest_document up to the try block
IngestDocument(w, d) ==
    /\ workers[w].pc = "idle"
    /\ IF d \notin DOMAIN documents
       THEN /\ workers' = [workers EXCEPT ![w] =
                              [op |-> "ingest_document", pc |-> "done", todo |-> <<>>,
                               response |-> "404"]]
            /\ UNCHANGED documents
       ELSE IF documents[d].status = "indexed"
       THEN /\ workers' = [workers EXCEPT ![w] =
                              [op |-> "ingest_document", pc |-> "done", todo |-> <<>>,
                               response |-> "Document already indexed"]]
            /\ UNCHANGED documents
       ELSE /\ workers' = [workers EXCEPT ![w] =
                              [op |-> "ingest_document", pc |-> "chunk", todo |-> <<d>>,
                               response |-> ""]]
            /\ documents' = UpdateDocumentStatus(documents, d, "processing")
    /\ UNCHANGED << chunks, collections, next_doc, next_chunk, query_out >>
    /\ UNCHANGED NotStoreVars

\* ingest_all_documents up to its loop
IngestAllDocuments(w) ==
    /\ workers[w].pc = "idle"
    /\ LET todo == Ascending({d \in DOMAIN documents : documents[d].status # "indexed"})
       IN  workers' = [workers EXCEPT ![w] =
               IF todo = <<>>
               THEN [op |-> "ingest_all", pc |-> "done", todo |-> <<>>,
                     response |-> "All documents are already indexed"]
               ELSE [op |-> "ingest_all", pc |-> "next", todo |-> todo, response |-> ""]]
    /\ UNCHANGED << documents, chunks, collections, next_doc, next_chunk, query_out >>
    /\ UNCHANGED NotStoreVars

\* the head of the loop of ingest_all_documents
NextDocument(w) ==
    /\ workers[w].pc = "next"
    /\ LET todo == workers[w].todo
       IN  IF todo = <<>>
           THEN /\ workers' = [workers EXCEPT ![w].pc = "done", ![w].response = "200"]
                /\ UNCHANGED documents
           ELSE IF Head(todo) \in DOMAIN documents
                   /\ documents[Head(todo)].status = "indexed"
           THEN /\ workers' = [workers EXCEPT ![w].todo = Tail(todo)]
                /\ UNCHANGED documents
           ELSE /\ workers' = [workers EXCEPT ![w].pc = "chunk"]
                /\ documents' = UpdateDocumentStatus(documents, Head(todo), "processing")
    /\ UNCHANGED << chunks, collections, next_doc, next_chunk, query_out >>
    /\ UNCHANGED NotStoreVars

\* the except branch: the status becomes "error"; ingest_document answers
\* 500, ingest_all_documents goes on with the next document
AfterError(w) ==
    IF workers[w].op = "ingest_all"
    THEN [workers EXCEPT ![w].pc = "next", ![w].todo = Tail(@)]
    ELSE [workers EXCEPT ![w].pc = "done", ![w].response = "500"]

\* the file is loaded and chunked and create_chunk stores every chunk, or
\* one of them raises (so when the file was deleted)
CreateChunks(w) ==
    /\ workers[w].pc = "chunk"
    /\ LET d == Head(workers[w].todo)
       IN  \E ok \in {o \in BOOLEAN :
                        o => (d \in DOMAIN documents /\ next_chunk <= MaxChunkIds)} :
             IF ok
             THEN /\ chunks' = chunks \cup {[id |-> next_chunk, document_id |-> d]}
                  /\ next_chunk' = next_chunk + 1
                  /\ workers' = [workers EXCEPT ![w].pc = "add"]
                  /\ UNCHANGED documents
             ELSE /\ documents' = UpdateDocumentStatus(documents, d, "error")
                  /\ workers' = AfterError(w)
                  /\ UNCHANGED << chunks, next_chunk >>
    /\ UNCHANGED << collections, next_doc, query_out >>
    /\ UNCHANGED NotStoreVars

\* vector_store.add_documents(texts=, embeddings=, metadatas=, ids=): the
\* call has no user_id and raises TypeError, which the except branch takes
AddToVectorStore(w) ==
    /\ workers[w].pc = "add"
    /\ AddDocumentsRaises(FALSE)
    /\ documents' = UpdateDocumentStatus(documents, Head(workers[w].todo), "error")
    /\ workers' = AfterError(w)
    /\ UNCHANGED << chunks, collections, next_doc, next_chunk, query_out >>
    /\ UNCHANGED NotStoreVars

\* the endpoint has answered
IngestReturn(w) ==
    /\ workers[w].pc = "done"
    /\ workers' = [workers EXCEPT ![w] = NoWorker]
    /\ UNCHANGED << documents, chunks, collections, next_doc, next_chunk, query_out >>
    /\ UNCHANGED NotStoreVars

(***************************************************************************)
(* backend/api/documents.py: delete_document_endpoint                      *)
(***************************************************************************)
\* the file and the row are deleted (a document that does not exist is a
\* 404); the vector store is not called
DeleteDocumentEndpoint(d) ==
    /\ d \in DOMAIN documents
    /\ documents' = WithoutDocument(documents, d)
    /\ chunks' = WithoutChunksOf(chunks, d)
    /\ UNCHANGED << collections, next_doc, next_chunk, workers, query_out >>
    /\ UNCHANGED NotStoreVars

(***************************************************************************)
(* VectorStore.query and VectorStore.delete_documents, called directly     *)
(***************************************************************************)
Query(u) ==
    /\ query_out' = [user_id |-> u, vectors |-> VectorStoreQuery(collections, u)]
    /\ UNCHANGED << documents, chunks, collections, next_doc, next_chunk, workers >>
    /\ UNCHANGED NotStoreVars

DeleteVectors(u, id) ==
    /\ id < next_chunk
    /\ collections' = DeleteDocuments(collections, u, {id})
    /\ UNCHANGED << documents, chunks, next_doc, next_chunk, workers, query_out >>
    /\ UNCHANGED NotStoreVars

SNext ==
    \/ \E u \in UserIds, ends \in {"ok", "load raises", "embed raises"} :
          IngestFile(u, ends)
    \/ \E w \in WorkerIds, d \in 1..MaxStoredDocs : IngestDocument(w, d)
    \/ \E w \in WorkerIds : IngestAllDocuments(w)
    \/ \E w \in WorkerIds : NextDocument(w)
    \/ \E w \in WorkerIds : CreateChunks(w)
    \/ \E w \in WorkerIds : AddToVectorStore(w)
    \/ \E w \in WorkerIds : IngestReturn(w)
    \/ \E d \in 1..MaxStoredDocs : DeleteDocumentEndpoint(d)
    \/ \E u \in UserIds : Query(u)
    \/ \E u \in UserIds, id \in 1..MaxChunkIds : DeleteVectors(u, id)

(***************************************************************************)
(* QAChain.answer called by several requests at once: query_rag is a plain *)
(* def, FastAPI runs it in its thread pool, and qa_chain is one object     *)
(***************************************************************************)
ThreadIds == {1, 2}

NoThread ==
    [pc |-> "idle", q |-> 0, eval_mode |-> FALSE, ground_truth |-> None,
     original_max_tokens |-> 0]

TInit == threads = [t \in ThreadIds |-> NoThread]

\* what the thread machine leaves alone
NotThreadVars ==
    << rvars, kvars, cvars, svars, evars, eval_max_tokens, qa_request, qa_pc, ordered_docs,
       context, original_max_tokens, llm_call, result, response >>

\* the call, up to the eval branch: the limit of an eval call is written
StartAnswer(t, q, eval_mode, ground_truth) ==
    /\ threads[t].pc = "idle"
    /\ LET req == [q |-> q, eval_mode |-> eval_mode, ground_truth |-> ground_truth]
       IN  llm_max_tokens' = EvalLimited(req, llm_max_tokens)
    /\ threads' = [threads EXCEPT ![t] =
                      [pc |-> "save", q |-> q, eval_mode |-> eval_mode,
                       ground_truth |-> ground_truth, original_max_tokens |-> 0]]
    /\ UNCHANGED NotThreadVars

\* original_max_tokens = self.llm.max_tokens
SaveLimit(t) ==
    /\ threads[t].pc = "save"
    /\ threads' = [threads EXCEPT ![t].pc = "raise",
                                  ![t].original_max_tokens = llm_max_tokens]
    /\ UNCHANGED llm_max_tokens
    /\ UNCHANGED NotThreadVars

\* self.llm.max_tokens = max(original_max_tokens, 3000) for a processor
\* question
RaiseLimit(t) ==
    /\ threads[t].pc = "raise"
    /\ llm_max_tokens' = IF QIsProcessor[threads[t].q]
                         THEN Max(threads[t].original_max_tokens, 3000)
                         ELSE llm_max_tokens
    /\ threads' = [threads EXCEPT ![t].pc = "invoke"]
    /\ UNCHANGED NotThreadVars

\* self.llm.invoke(messages) returns, or raises and the except branch ends
\* the call
InvokeLLM(t) ==
    /\ threads[t].pc = "invoke"
    /\ \E raised \in BOOLEAN :
         threads' = [threads EXCEPT ![t] =
                        IF raised THEN NoThread ELSE [@ EXCEPT !.pc = "restore"]]
    /\ UNCHANGED llm_max_tokens
    /\ UNCHANGED NotThreadVars

\* the restore statements after invoke, and the return
RestoreLimit(t) ==
    /\ threads[t].pc = "restore"
    /\ llm_max_tokens' = Restored(threads[t], llm_max_tokens,
                                  threads[t].original_max_tokens)
    /\ threads' = [threads EXCEPT ![t] = NoThread]
    /\ UNCHANGED NotThreadVars

TNext ==
    \/ \E t \in ThreadIds, q \in QuestionIds, eval_mode \in BOOLEAN,
          ground_truth \in GroundTruths : StartAnswer(t, q, eval_mode, ground_truth)
    \/ \E t \in ThreadIds : SaveLimit(t)
    \/ \E t \in ThreadIds : RaiseLimit(t)
    \/ \E t \in ThreadIds : InvokeLLM(t)
    \/ \E t \in ThreadIds : RestoreLimit(t)

(***************************************************************************)
(* Retriever.retrieve: the expansion of the query, up to embed_text        *)
(***************************************************************************)
\* product_keywords: the brand
ProductBrand(ql) ==
    IF Contains(ql, "thinkpad") \/ Contains(ql, "think pad") THEN <<"thinkpad">>
    ELSE IF Contains(ql, "zbook") THEN <<"zbook">>
    ELSE IF Contains(ql, "ideapad") THEN <<"ideapad">>
    ELSE <<>>

RECURSIVE AppendNew(_, _, _)
\* for model_match in model_matches: append it if it is not in the list
AppendNew(list, ms, i) ==
    IF i > Len(ms) THEN list
    ELSE AppendNew(IF \E j \in 1..Len(list) : list[j] = ms[i] THEN list
                   ELSE Append(list, ms[i]), ms, i + 1)

RECURSIVE GenPairs(_, _)
\* for gen_num in gen_matches: "gen N" and "generation N"
GenPairs(gs, i) ==
    IF i > Len(gs) THEN <<>>
    ELSE <<"gen " \o gs[i], "generation " \o gs[i]>> \o GenPairs(gs, i + 1)

ProductKeywords(ql) ==
    AppendNew(ProductBrand(ql), ModelMatches(ql), 1) \o GenPairs(GenMatches(ql), 1)

RECURSIVE Join(_, _)
\* " ".join(list[i:])
Join(list, i) ==
    IF i > Len(list) THEN ""
    ELSE IF i = Len(list) THEN list[i]
    ELSE list[i] \o " " \o Join(list, i + 1)

\* " ".join(product_keywords) * 2 if product_keywords else ""
ProductEmphasis(ql) == Join(ProductKeywords(ql), 1) \o Join(ProductKeywords(ql), 1)

\* additional_keywords of every branch ("cd/m2" also stands for the same
\* unit written with a superscript)
SubtypeBlocks ==
    [brightness |->
        "display brightness Helligkeit nits cd/m2 cd/m2 luminance luminanz screen display specifications 300 nits typical brightness",
     ram |-> "RAM memory DDR4 DDR5 DDR3 GB gigabytes 16GB 32GB 64GB 8GB memory specifications",
     weight |->
        "weight Weight Gewicht kg lbs pounds kilogram starting at mechanical dimensions size mass specifications",
     dimensions |->
        "dimensions Dimensions Abmessungen WxDxH width height depth mm inches mechanical size specifications",
     screen_to_body |->
        "Screen-to-Body Ratio Screen to Body Ratio screen-to-body ratio screen to body ratio bezel display bezel screen bezel ratio percentage % 85% 85.5% 86% 87% 88% 88.5% 89% 90% 91% 92% 93% 94% 95% display Display screen Screen panel Panel specifications specifications table Table WUXGA FHD resolution brightness nits",
     display |->
        "display Display screen panel IPS LCD OLED FHD UHD resolution inch inches nits brightness specifications",
     battery |-> "battery Battery Akku Wh capacity power cells life runtime specifications",
     general |->
        "processor CPU Prozessor cores Kerne threads Threads frequency Taktfrequenz cache Intel AMD Core Ultra Ryzen i3 i5 i7 i9 GHz MHz memory RAM DDR4 DDR5 storage SSD HDD graphics GPU display screen resolution brightness nits cd/m2 luminance Helligkeit battery capacity power adapter dimensions weight size ports connectivity USB Thunderbolt HDMI"]

\* the branch taken with the display branch tried before the others
SpecSubtypeDisplayFirst(ql) ==
    IF AnyIn({"display", "bildschirm", "screen", "monitor", "resolution"}, ql) THEN "display"
    ELSE IF AnyIn({"helligkeit", "brightness", "nits", "luminance", "luminanz"}, ql)
    THEN "brightness"
    ELSE IF AnyIn({"ram", "memory", "speicher", "arbeitsspeicher"}, ql) THEN "ram"
    ELSE IF AnyIn({"gewicht", "weight", "schwer", "leicht", "kg", "lbs", "gramm"}, ql)
    THEN "weight"
    ELSE IF AnyIn({"abmessung", "dimension", "breite", "tiefe"}, ql) THEN "dimensions"
    ELSE IF AnyIn({"screen-to-body", "screen to body", "screen-to-body ratio",
                   "screen to body ratio", "bezel", "display bezel", "screen bezel",
                   "ratio"}, ql) THEN "screen_to_body"
    ELSE IF AnyIn({"akku", "battery", "batterie", "laufzeit", "wh"}, ql) THEN "battery"
    ELSE "general"

\* the branch of the if/elif chain that sets additional_keywords
SpecSubtype(ql) ==
    IF AnyIn({"helligkeit", "brightness", "nits", "luminance", "luminanz"}, ql)
    THEN "brightness"
    ELSE IF AnyIn({"ram", "memory", "speicher", "arbeitsspeicher"}, ql) THEN "ram"
    ELSE IF AnyIn({"gewicht", "weight", "schwer", "leicht", "kg", "lbs", "gramm"}, ql)
    THEN "weight"
    ELSE IF AnyIn({"abmessung", "dimension", "breite", "tiefe"}, ql) THEN "dimensions"
    ELSE IF AnyIn({"screen-to-body", "screen to body", "screen-to-body ratio",
                   "screen to body ratio", "bezel", "display bezel", "screen bezel",
                   "ratio"}, ql) THEN "screen_to_body"
    ELSE IF AnyIn({"display", "bildschirm", "screen", "monitor", "resolution"}, ql)
    THEN "display"
    ELSE IF AnyIn({"akku", "battery", "batterie", "laufzeit", "wh"}, ql) THEN "battery"
    ELSE "general"

\* generation_keywords: of the first generation found
GenerationKeywords(ql) ==
    LET gs == GenMatches(ql)
    IN  IF Len(gs) > 0
        THEN "Gen " \o gs[1] \o " Generation " \o gs[1] \o " " \o gs[1] \o "th generation"
        ELSE ""

PerformanceKeywords ==
    "PERFORMANCE PERFORMANCE section PERFORMANCE specifications technical specifications processor CPU Prozessor Intel AMD Core Ultra Ryzen i3 i5 i7 i9 i11 cores Kerne threads Threads frequency Taktfrequenz GHz MHz cache memory RAM DDR4 DDR5 16GB 32GB 64GB storage SSD HDD graphics GPU display screen resolution brightness nits cd/m2 luminance Helligkeit panel IPS LCD OLED battery akku batterie power adapter W Wh capacity life dimensions abmessungen weight gewicht size width height depth mm inches kg lbs ports connectivity"

\* the text retrieve gives embed_text:
\* f"{query} {product_emphasis} {additional_keywords} {generation_keywords} {performance_keywords}"
\* for a spec query, the query itself otherwise
ExpandedQuery(query) ==
    LET ql == Lower(query)
    IN  IF IsSpecQuery(query)
        THEN query \o " " \o ProductEmphasis(ql) \o " " \o SubtypeBlocks[SpecSubtype(ql)]
                   \o " " \o GenerationKeywords(ql) \o " " \o PerformanceKeywords
        ELSE query

\* the queries of the calls
ExpandPool ==
    << "Akku ThinkPad E14",
       "Akku ThinkPad E14 Gen 6",
       "Akku ThinkPad E14 Generation 6",
       "Display Helligkeit ThinkPad E14",
       "Display Helligkeit ThinkPad E14 Gen 6",
       "Display Screen-to-Body Ratio ThinkPad E14",
       "Display Screen-to-Body Ratio ThinkPad E14 Gen 6",
       "Technische Spezifikationen ThinkPad L16",
       "Technische Spezifikationen ThinkPad L16 generation 2",
       "Wieviel RAM hat das Thinkpad E14?",
       "Gewicht und Abmessungen ThinkPad E14 Gen 6",
       "Abmessungen ThinkPad E14",
       "Display ThinkPad E14",
       "Erzaehl mir etwas ueber Lenovo" >>
ExpandIds == 1..Len(ExpandPool)

\* expanded_query of every query of the pool
Expanded == [x \in ExpandIds |-> ExpandedQuery(ExpandPool[x])]

\* the number of calls the record of calls holds
MaxEmbedCalls == 2

EInit == embed_calls = <<>>

\* retrieve(query) up to self.embedder.embed_text(...)
EmbedQuery(x) ==
    /\ Len(embed_calls) < MaxEmbedCalls
    /\ embed_calls' = Append(embed_calls, [query |-> ExpandPool[x], text |-> Expanded[x]])
    /\ UNCHANGED << rvars, qvars, kvars, cvars, svars, tvars >>

ENext == \E x \in ExpandIds : EmbedQuery(x)

(***************************************************************************)
(* Specifications: each machine runs with the other one at rest            *)
(***************************************************************************)
\* the retrieval machine, with a QA chain that is never called
CInit == kept = NoKept

InitRetrieval == RInit /\ QInit /\ eval_max_tokens = None /\ KInit /\ CInit /\ SInit /\ TInit /\ EInit
SpecRepeat == InitRetrieval /\ [][RepeatNext]_vars
SpecRetrieval == InitRetrieval /\ [][RNext]_vars

\* a Retriever that is never called and has nothing in its index
RAtRest ==
    /\ RInit
    /\ store = "collection"
    /\ index = <<>>
    /\ use_reranking = TRUE

\* the QA chain, with a Retriever that is never called
InitQA == RAtRest /\ QInit /\ KInit /\ CInit /\ SInit /\ TInit /\ EInit
SpecQA == InitQA /\ [][QNext]_vars

\* the Reranker called on its own
InitReranker == RAtRest /\ QInit /\ eval_max_tokens = None /\ KInit /\ CInit /\ SInit /\ TInit /\ EInit
SpecReranker == InitReranker /\ [][KNext]_vars

\* the document endpoints, the ingest script and the VectorStore
SpecStore == InitReranker /\ [][SNext]_vars

\* QAChain.answer called from several threads
SpecConcurrent == InitQA /\ [][TNext]_vars

\* calls of retrieve, up to the text they embed
SpecExpand == InitReranker /\ [][ENext]_vars

(***************************************************************************)
(* What the texts of the pools say, read off the texts themselves: the     *)
(* product and generation a query asks about, the product + generation     *)
(* combinations a chunk mentions, the product a filename names.            *)
(***************************************************************************)
QueryNames ==
    << [model |-> "e14", gen |-> NoGen],
       [model |-> "e14", gen |-> 6],
       [model |-> "p15v", gen |-> 4],
       [model |-> NoProduct, gen |-> NoGen],
       [model |-> "l16", gen |-> 2],
       [model |-> "e14", gen |-> 6] >>

ChunkMentions ==
    << {}, {<<"e14", 6>>}, {<<"l16", 2>>}, {<<"e14", 6>>, <<"l16", 2>>},
       {<<"l16", 2>>}, {<<"p15v", 3>>}, {}, {}, {<<"l16", 6>>} >>

FilenameNames == << "e14", "e14", "l16" >>

\* the call has returned a list (it did not raise)
Returned(op) == r_pc = "done" /\ request.op = op /\ outcome.raised = ""

ReturnedIds == {outcome.docs[j].id : j \in 1..Len(outcome.docs)}

\* the chunk names only other models, each with another generation
NamesOnlyOther(q, c) ==
    /\ ChunkMentions[c] # {}
    /\ \A m \in ChunkMentions[c] : m[1] # QueryNames[q].model /\ m[2] # QueryNames[q].gen

\* the chunk mentions some other model together with another generation
MentionsOther(q, c) ==
    \E m \in ChunkMentions[c] : m[1] # QueryNames[q].model /\ m[2] # QueryNames[q].gen

(***************************************************************************)
(* C2. Product filtering exclusion (P4): for a query that names model A    *)
(* and generation G1, the list retrieve returns holds no chunk whose text  *)
(* names only another model B together with another generation G2,         *)
(* whatever its similarity and its document's filename.                    *)
(***************************************************************************)
C2_Exclusion ==
    (Returned("retrieve") /\ QueryNames[request.q].gen # NoGen)
        => \A c \in ReturnedIds : ~NamesOnlyOther(request.q, c)

(***************************************************************************)
(* C6. Scenario 1: when the query names a product and no generation, a     *)
(* chunk the index returned whose text does not repeat the product name    *)
(* but whose document's filename names it is in the list retrieve returns, *)
(* with its similarity boosted; so for "Wieviel RAM hat das Thinkpad E14?" *)
(* and the chunk "Memory: Up to 16GB DDR4 (2666MHz)" of ThinkPad_E14.pdf.  *)
(***************************************************************************)
C6_FilenameKeepsChunk ==
    (Returned("retrieve") /\ QueryNames[request.q].model # NoProduct
                          /\ QueryNames[request.q].gen = NoGen)
        => \A i \in 1..Len(results) :
              (/\ ChunkMentions[results[i]] = {}
               /\ FilenameNames[ChunkPool[results[i]].document_id]
                      = QueryNames[request.q].model)
                  => \E j \in 1..Len(outcome.docs) :
                        /\ outcome.docs[j].id = results[i]
                        /\ outcome.docs[j].similarity > 100 - outcome.docs[j].distance

(***************************************************************************)
(* C7. Outright rejection: for a query naming product P and generation G,  *)
(* the list retrieve returns holds no chunk whose text mentions a model    *)
(* other than P together with a generation other than G, chunks that also  *)
(* mention the target included.                                            *)
(***************************************************************************)
C7_OutrightRejection ==
    (Returned("retrieve") /\ QueryNames[request.q].gen # NoGen)
        => \A c \in ReturnedIds : ~MentionsOther(request.q, c)

(***************************************************************************)
(* C8. Reranking failure is non-fatal: once retrieve has handed its list   *)
(* to retrieve_with_reranking, if the reranker raises or returns a         *)
(* position outside the list, or if there is no reranker or use_reranking  *)
(* is off, the call does not raise and returns the leading target_k        *)
(* candidates of retrieve's list in retrieve's order.                      *)
(***************************************************************************)
RerankerFailed ==
    \/ outcome.reranker_out.raised
    \/ \E j \in 1..Len(outcome.reranker_out.indices) :
          outcome.reranker_out.indices[j] >= Len(retrieved_docs)

LeadingCandidates(docs, list, k) ==
    /\ Len(docs) = Min(k, Len(list))
    /\ \A j \in 1..Len(docs) : docs[j] = list[j]

C8_RerankFailureNonFatal ==
    (/\ r_pc = "done"
     /\ request.op = "retrieve_with_reranking"
     /\ store = "collection"
     /\ \/ RerankerFailed
        \/ request.reranker = "None"
        \/ ~use_reranking)
        => /\ outcome.raised = ""
           /\ LeadingCandidates(outcome.docs, retrieved_docs,
                                TargetK(request.q, request.n_results))

\* the reranker failed on a list longer than target_k
C8_Witness ==
    /\ Returned("retrieve_with_reranking")
    /\ RerankerFailed
    /\ Len(retrieved_docs) > Len(outcome.docs)
    /\ Len(outcome.docs) > 0

(***************************************************************************)
(* C10. Empty-index safety (P6): on an index without entries, retrieve and *)
(* retrieve_with_reranking return an empty list and do not raise, with or  *)
(* without a reranker.                                                     *)
(***************************************************************************)
C10_EmptyIndexSafe ==
    (r_pc = "done" /\ index = <<>>) => (outcome.raised = "" /\ outcome.docs = <<>>)

(***************************************************************************)
(* What the generation results of the pool cite, read off the texts        *)
(* themselves: the numbers of their markers, ranges written out            *)
(***************************************************************************)
AnswerCites == << {1}, {2, 4}, {3}, {2, 3, 4}, {11, 12, 13}, {0, 99}, {}, {} >>

\* the numbers the answer of the running call cites (the answer made of an
\* error message "timeout" cites nothing)
CitedNumbers ==
    IF llm_call.out.raised THEN {}
    ELSE AnswerCites[CHOOSE a \in 1..Len(AnswerPool) : AnswerPool[a] = llm_call.out.text]

\* answer_with_retrieved_docs has built its result
Resolved == qa_pc \in {"respond", "done"} /\ llm_call.made

\* the list that was rendered, as the generation call received it
Rendered == llm_call.context

(* C1. Citation resolution: when the answer cites the set S of numbers and *)
(* at least one of them lies in 1..N, N the number of rendered entries,    *)
(* the sources are exactly the rendered entries at the positions of S in   *)
(* 1..N, in ascending position order, each with source_number equal to its *)
(* position; numbers outside 1..N contribute nothing.                      *)
C1_CitationResolution ==
    LET cited == CitedNumbers \cap (1..Len(Rendered))
        src == result.sources
    IN  (Resolved /\ cited # {}) =>
            /\ Len(src) = Cardinality(cited)
            /\ {src[j].source_number : j \in 1..Len(src)} = cited
            /\ \A j \in 1..Len(src) - 1 : src[j].source_number < src[j + 1].source_number
            /\ \A j \in 1..Len(src) :
                 /\ Rendered[src[j].source_number].number = src[j].source_number
                 /\ Rendered[src[j].source_number].chunk_id = src[j].chunk_id
                 /\ Rendered[src[j].source_number].text = src[j].text

\* an answer citing a number in range and numbers out of range was resolved
C1_Witness ==
    /\ Resolved
    /\ CitedNumbers = {11, 12, 13}
    /\ Len(Rendered) = 12
    /\ Len(result.sources) = 2

\* the position in the rendered list of the entry that is j-th by
\* similarity, the earlier entry first among equals
RankedPosition(j) ==
    CHOOSE k \in 1..Len(ordered_docs) :
        Cardinality({m \in 1..Len(ordered_docs) :
                        \/ ordered_docs[m].similarity > ordered_docs[k].similarity
                        \/ /\ ordered_docs[m].similarity = ordered_docs[k].similarity
                           /\ m < k}) = j - 1

(* C3. No-citation fallback: when the answer has no citation marker and    *)
(* N > 0 entries were rendered, the sources are non-empty and are the      *)
(* min(10, N) entries of highest similarity, by similarity descending,     *)
(* entries of equal similarity in rendered order.                          *)
C3_NoCitationFallback ==
    LET src == result.sources
        wanted == IF Len(Rendered) < 10 THEN Len(Rendered) ELSE 10
    IN  (Resolved /\ CitedNumbers = {} /\ Len(Rendered) > 0) =>
            /\ Len(src) = wanted
            /\ Len(src) > 0
            /\ \A j \in 1..Len(src) :
                 /\ src[j].chunk_id = Rendered[RankedPosition(j)].chunk_id
                 /\ src[j].text = Rendered[RankedPosition(j)].text
                 /\ src[j].similarity = ordered_docs[RankedPosition(j)].similarity

\* more than 10 entries, two of them with equal similarity among the
\* sources, and an answer without markers
C3_Witness ==
    /\ Resolved
    /\ CitedNumbers = {}
    /\ Len(Rendered) > 10
    /\ Len(result.sources) = 10
    /\ \E j \in 1..9 : result.sources[j].similarity = result.sources[j + 1].similarity

(* C4. Budget bound: the context passed to the generation call has an      *)
(* estimated token count, its rendered length / 3.5, of at most 80000 in   *)
(* eval mode and 100000 otherwise.                                         *)
C4_BudgetBound ==
    llm_call.made =>
        2 * ContextLen(Rendered) <= 7 * (IF qa_request.eval_mode THEN 80000 ELSE 100000)

(* C5. Source-number invariant of rendering: the context sent to the       *)
(* generation call has one block per entry of the final ordered list, the  *)
(* k-th block numbered k with the id and the full text of the k-th entry;  *)
(* the list the citations are resolved against and used_chunks are that    *)
(* list in that order, also after the size check cut the list.             *)
C5_SourceNumberInvariant ==
    /\ llm_call.made =>
         /\ Len(Rendered) = Len(ordered_docs)
         /\ \A k \in 1..Len(Rendered) :
              /\ Rendered[k].number = k
              /\ Rendered[k].chunk_id = ordered_docs[k].id
              /\ Rendered[k].text = ordered_docs[k].text
    /\ Resolved =>
         /\ result.used_chunks = ordered_docs
         /\ \A j \in 1..Len(result.sources) :
              "source_number" \in DOMAIN result.sources[j] =>
                  /\ result.sources[j].source_number \in 1..Len(Rendered)
                  /\ Rendered[result.sources[j].source_number].chunk_id =
                         result.sources[j].chunk_id

\* the size check cut the list, the context was rendered again and the
\* answer cited an entry of it
C5_Witness ==
    /\ Resolved
    /\ Len(ordered_docs) > 0
    /\ Len(ordered_docs) <
           Len(OrderedDocs(qa_request.q, qa_request.eval_mode, qa_request.retrieved_docs))
    /\ Len(qa_request.retrieved_docs) <= MaxDocs
    /\ CitedNumbers = {2, 4}
    /\ Len(result.sources) = 2

(* C9. Generation failure: when the generation call raises, the result of  *)
(* answer_with_retrieved_docs and the response of the API carry the        *)
(* placeholder answer and an empty sources list.                           *)
C9_GenerationFailure ==
    (Resolved /\ llm_call.out.raised) =>
        /\ result.answer = "Fehler bei der Generierung der Antwort: timeout"
        /\ result.sources = <<>>
        /\ (qa_pc = "done" /\ qa_request.caller = "query_rag") =>
               (response.status = 200 /\ response.sources = <<>>)

(***************************************************************************)
(* C15. Reranker.rerank(query, texts, top_k) returns min(top_k, len(texts)) *)
(* pairwise distinct valid indices into texts, their scores non-increasing *)
(* along the list, no omitted index scoring strictly higher than a         *)
(* returned one; for no texts it returns an empty list and does not call   *)
(* the model.                                                              *)
(***************************************************************************)
C15_RerankContract ==
    LET ind == rerank_call.out.indices
        sc == rerank_call.out.scores
        n == rerank_call.len
        wanted == IF rerank_call.top_k < n THEN rerank_call.top_k ELSE n
        returned == {ind[j] : j \in 1..Len(ind)}
    IN  (rerank_call.done /\ ~rerank_call.out.raised) =>
            /\ Len(ind) = wanted
            /\ returned \subseteq 0..(n - 1)
            /\ Cardinality(returned) = Len(ind)
            /\ \A j \in 1..Len(ind) - 1 : sc[ind[j] + 1] >= sc[ind[j + 1] + 1]
            /\ \A i \in (0..(n - 1)) \ returned :
                 \A j \in 1..Len(ind) : sc[i + 1] <= sc[ind[j] + 1]
            /\ (n = 0) => (ind = <<>> /\ ~rerank_call.out.model_called)

\* four texts, two asked for, the two best scored alike
C15_Witness ==
    /\ rerank_call.done
    /\ rerank_call.len = 4
    /\ rerank_call.top_k = 2
    /\ rerank_call.out.scores = <<1, 2, 2, 1>>
    /\ rerank_call.out.indices = <<1, 2>>


(***************************************************************************)
(* Result size of retrieve_with_reranking                                  *)
(***************************************************************************)
\* what the queries of the pool are, read off their words: the fifth asks
\* for processors, the sixth for the screen-to-body ratio
ProcessorQueries == {5}
ScreenToBodyQueries == {6}

\* the number of candidates the caller asked for (rerank_top_k without one)
Requested == IF request.n_results = None THEN rerank_top_k ELSE request.n_results[1]

\* the positions came from the repository's Reranker, or no positions were
\* used at all (reranking skipped, nothing to rerank, fallback)
OwnRerankerOrNone == request.reranker # "object" \/ outcome.rerank # "reranked"

PriorityOrdered ==
    Ordered(qa_request.q, GeneralSpecReorder(qa_request.q, qa_request.retrieved_docs))

\* the cap and the size check have both run
Trimmed == qa_pc \in {"prepare", "invoke", "resolve", "respond"} \/ llm_call.made

(* C12. Trimming drops only whole low-priority chunks: after the cap (50,  *)
(* 30 in eval mode) and the size check, the final list is a prefix of the  *)
(* priority-ordered list, has at most the cap's number of entries, and     *)
(* every rendered block carries the complete text of its chunk.            *)
C12_TrimmingKeepsPrefix ==
    Trimmed =>
        /\ Len(ordered_docs) <= Len(PriorityOrdered)
        /\ \A k \in 1..Len(ordered_docs) : ordered_docs[k] = PriorityOrdered[k]
        /\ Len(ordered_docs) <= (IF qa_request.eval_mode THEN 30 ELSE 50)
        /\ Len(context) = Len(ordered_docs)
        /\ \A k \in 1..Len(context) :
             /\ context[k].text = PriorityOrdered[k].text
             /\ TextLength[context[k].text] = TextLength[PriorityOrdered[k].text]

\* 51 candidates of 40,000 characters: the cap dropped the last one, the
\* size check all but ten, and the generation call received the ten
C12_Witness ==
    /\ llm_call.made
    /\ Len(qa_request.retrieved_docs) = 51
    /\ Len(PriorityOrdered) = 51
    /\ Len(ordered_docs) = 10
    /\ Len(llm_call.context) = 10

(***************************************************************************)
(* Reordering of the candidates by category                                *)
(***************************************************************************)
\* what the questions and the texts of the pools are, read off their words:
\* the second question asks for processors; the third and the fifth text
\* are rows of a processor table
ProcessorQuestions == {2}
ProcessorTableTexts == {QATexts[3], QATexts[5]}

\* how often the candidate with this id is in the list
Occurrences(docs, id) == Cardinality({k \in 1..Len(docs) : docs[k].id = id})

\* the reordering has run
Reordered == qa_pc \in {"render", "prepare", "invoke", "resolve", "respond"}

(* C18. Category reordering is a partition: the ordered list before any    *)
(* trimming is a permutation of the input candidates, no candidate is      *)
(* dropped and none appears twice, so no chunk of the final list has two   *)
(* source numbers; for processor questions as for all others.              *)
C18_ReorderingIsPartition ==
    Reordered =>
        /\ Len(PriorityOrdered) = Len(qa_request.retrieved_docs)
        /\ \A j \in 1..Len(qa_request.retrieved_docs) :
             Occurrences(PriorityOrdered, qa_request.retrieved_docs[j].id) = 1
        /\ \A k \in 1..Len(ordered_docs) :
             Occurrences(ordered_docs, ordered_docs[k].id) = 1

(* C19. Processor-first layout: for a processor question, in the final     *)
(* ordered list no processor-table chunk stands after a chunk that is not  *)
(* a processor-table chunk.                                                *)
C19_ProcessorFirst ==
    (Trimmed /\ qa_request.q \in ProcessorQuestions) =>
        \A j \in 1..Len(ordered_docs), k \in 1..Len(ordered_docs) :
            (j < k /\ ordered_docs[k].text \in ProcessorTableTexts)
                => ordered_docs[j].text \in ProcessorTableTexts

(***************************************************************************)
(* Keep conditions of the product/generation filter                        *)
(***************************************************************************)
\* the generation the filename of each document names
FilenameGens == << NoGen, 6, 2 >>

\* the products the text of the chunk names
ProductsIn(c) == {m[1] : m \in ChunkMentions[c]}

\* (a) the text names the product and the generation
KeepA(q, c) == <<QueryNames[q].model, QueryNames[q].gen>> \in ChunkMentions[c]

\* (b) the text names the product, the filename the generation
KeepB(q, c) ==
    /\ QueryNames[q].model \in ProductsIn(c)
    /\ FilenameGens[ChunkPool[c].document_id] = QueryNames[q].gen

\* (c) the text names the product and no other product with another
\* generation
KeepC(q, c) == QueryNames[q].model \in ProductsIn(c) /\ ~MentionsOther(q, c)

\* (d) the filename names the product and the generation, the text no
\* other product
KeepD(q, c) ==
    /\ FilenameNames[ChunkPool[c].document_id] = QueryNames[q].model
    /\ FilenameGens[ChunkPool[c].document_id] = QueryNames[q].gen
    /\ ProductsIn(c) \subseteq {QueryNames[q].model}

(* C20. Keep conditions: for a query naming a product and a generation,    *)
(* of any query type, every candidate retrieve returns satisfies one of    *)
(* (a) text names product and generation, (b) text names the product and   *)
(* the filename the generation, (c) text names the product and no other    *)
(* product+generation combination, (d) the filename names both and the     *)
(* text no other product.                                                  *)
C20_KeepConditions ==
    (Returned("retrieve") /\ QueryNames[request.q].gen # NoGen) =>
        \A c \in ReturnedIds :
            KeepA(request.q, c) \/ KeepB(request.q, c) \/ KeepC(request.q, c)
                \/ KeepD(request.q, c)

(***************************************************************************)
(* Determinism of retrieve                                                 *)
(***************************************************************************)
\* a call of retrieve has ended whose arguments are those of the kept call
SameCallAgain ==
    /\ r_pc = "done"
    /\ request.op = "retrieve"
    /\ kept # NoKept
    /\ kept.q = request.q
    /\ kept.n_results = request.n_results

(* C14. Determinism (P1): with the index, the document store and the       *)
(* models fixed, two calls of retrieve with identical arguments return the *)
(* identical ordered list, whatever queries ran before or between them and *)
(* whatever the filename cache holds at each call.                         *)
C14_Determinism ==
    SameCallAgain => (outcome.raised = kept.raised /\ outcome.docs = kept.docs)

\* the second of two equal calls returned a chunk that only the filename of
\* its document admits, while the cache holds the entry of a lookup that
\* failed
C14_Witness ==
    /\ SameCallAgain
    /\ ReadsFilename[request.q]
    /\ \E j \in 1..Len(outcome.docs) : ChunkMentions[outcome.docs[j].id] = {}
    /\ \E d \in DOMAIN filename_cache : filename_cache[d] = ""

(***************************************************************************)
(* Scope isolation                                                         *)
(***************************************************************************)
\* the scope a chunk was added under: the user of its document
AddedUnder(c) == DocOwner[ChunkPool[c].document_id]

AllVectors == UNION {collections[u] : u \in UserIds}

(* C16. Chunk lifecycle cascade: once a document has been deleted through  *)
(* the document-deletion operation, no later retrieval returns a chunk of  *)
(* that document: every vector a query returns belongs to a document that  *)
(* still exists when the query runs.                                       *)
C16_DeletedNotQueryable ==
    [][(query_out' # query_out) =>
          \A v \in query_out'.vectors : v.document_id \in DOMAIN documents']_vars

(* C17. One vector per indexed chunk: a document has status "indexed" only *)
(* if every chunk stored for it has exactly one vector in the index and    *)
(* every vector of the document corresponds to a stored chunk.             *)
C17_OneVectorPerIndexedChunk ==
    \A d \in DOMAIN documents :
        documents[d].status = "indexed" =>
            /\ \A c \in chunks :
                 c.document_id = d =>
                     Cardinality({u \in UserIds : c \in collections[u]}) = 1
            /\ \A v \in AllVectors : v.document_id = d => v \in chunks

(***************************************************************************)
(* The order of the list retrieve returns                                  *)
(***************************************************************************)
\* the place of chunk c in the list the index returned
IndexPlace(c) == CHOOSE k \in 1..Len(results) : results[k] = c

\* a comes before b by (priority bucket, adjusted similarity) descending,
\* candidates with equal key in index order
ComesBefore(q, a, b) ==
    \/ Priority[q][a.id] > Priority[q][b.id]
    \/ /\ Priority[q][a.id] = Priority[q][b.id]
       /\ a.similarity > b.similarity
    \/ /\ Priority[q][a.id] = Priority[q][b.id]
       /\ a.similarity = b.similarity
       /\ IndexPlace(a.id) < IndexPlace(b.id)

(* C21. Result order of Retriever.retrieve: for a spec query the returned  *)
(* list is sorted by (priority bucket, adjusted similarity) descending, a  *)
(* candidate of a higher bucket before one of a lower bucket whatever the  *)
(* similarities, candidates with equal key in index order; for a non-spec  *)
(* query the list keeps the order in which the index returned the          *)
(* candidates.                                                             *)
C21_ResultOrder ==
    Returned("retrieve") =>
        \A j \in 1..Len(outcome.docs), k \in 1..Len(outcome.docs) :
            j < k =>
                IF IsSpec[request.q]
                THEN ComesBefore(request.q, outcome.docs[j], outcome.docs[k])
                ELSE IndexPlace(outcome.docs[j].id) < IndexPlace(outcome.docs[k].id)

\* a spec query returned a candidate of a higher bucket before one of higher
\* similarity
C21_Witness ==
    /\ Returned("retrieve")
    /\ IsSpec[request.q]
    /\ Len(outcome.docs) = 2
    /\ Priority[request.q][outcome.docs[1].id] > Priority[request.q][outcome.docs[2].id]
    /\ outcome.docs[1].similarity < outcome.docs[2].similarity

(***************************************************************************)
(* Screen-to-body ranking; what the chunks of the pool say, read off the   *)
(* texts themselves                                                        *)
(***************************************************************************)
\* the chunks that mention the screen-to-body ratio by name, the display
\* chunks that only carry a percentage, the chunks without any percentage
MentionsScreenToBody == {}
DisplayWithPercentage == {8, 9}
WithoutPercentage == {1, 2, 3, 4, 5, 6, 7}

\* every returned chunk of class A stands before every returned chunk of
\* class B
AllBefore(A, B) ==
    \A j \in 1..Len(outcome.docs), k \in 1..Len(outcome.docs) :
        (outcome.docs[j].id \in A /\ outcome.docs[k].id \in B) => j < k

(* C22. Screen-to-body ranking: for a screen-to-body-ratio spec query, in  *)
(* the list Retriever.retrieve returns every chunk that mentions the       *)
(* screen-to-body ratio precedes every display chunk with a bare           *)
(* percentage, and every such display chunk precedes every chunk without a *)
(* percentage.                                                             *)
C22_ScreenToBodyRanking ==
    (Returned("retrieve") /\ request.q \in ScreenToBodyQueries) =>
        /\ AllBefore(MentionsScreenToBody, DisplayWithPercentage)
        /\ AllBefore(DisplayWithPercentage, WithoutPercentage)

(***************************************************************************)
(* The heuristic boost; the boosts (hundredths) of all the rules of the    *)
(* chain that the text of a chunk of the pool matches, in the order of the *)
(* chain, read off the texts themselves                                    *)
(***************************************************************************)
MatchingBoosts ==
    << <<10>>, <<28, 18, 10>>, <<28, 18, 10>>, <<28, 18, 10>>, <<28, 18, 10>>,
       <<28, 18, 10>>, <<25, 24, 20, 15, 10>>, <<38, 30, 19, 10>>, <<38, 30, 19, 10>> >>

\* the boost of the first matching rule, 0 when no rule matches
FirstBoost(c) == IF MatchingBoosts[c] = <<>> THEN 0 ELSE Head(MatchingBoosts[c])

(* C23. Heuristic boost: for a spec query the adjusted similarity of every *)
(* returned candidate is min(1.0, (1 - distance) + b), b the boost of the  *)
(* first rule of the chain the text matches (0 if none), never the sum of  *)
(* several rules, and so never above 1.0; for a non-spec query it is       *)
(* 1 - distance.                                                           *)
C23_HeuristicBoost ==
    Returned("retrieve") =>
        \A j \in 1..Len(outcome.docs) :
            LET doc == outcome.docs[j]
                boosted == (100 - doc.distance) + FirstBoost(doc.id)
            IN  IF IsSpec[request.q]
                THEN /\ doc.similarity = (IF boosted < 100 THEN boosted ELSE 100)
                     /\ doc.similarity <= 100
                ELSE doc.similarity = 100 - doc.distance

\* a spec query returned a chunk that matches several rules and whose
\* boosted similarity was capped, and one that stayed below the cap
C23_Witness ==
    /\ Returned("retrieve")
    /\ IsSpec[request.q]
    /\ \E j \in 1..Len(outcome.docs) :
         /\ Len(MatchingBoosts[outcome.docs[j].id]) > 1
         /\ (100 - outcome.docs[j].distance) + FirstBoost(outcome.docs[j].id) > 100
         /\ outcome.docs[j].similarity = 100
    /\ \E j \in 1..Len(outcome.docs) :
         /\ Len(MatchingBoosts[outcome.docs[j].id]) > 1
         /\ outcome.docs[j].similarity < 100

(***************************************************************************)
(* Model-code extraction                                                   *)
(***************************************************************************)
(* C25. Model-code extraction: for a query that names a model code of a    *)
(* letter prefix and 1-2 digits, also one with a letter suffix such as     *)
(* "P15v", the target product used for filtering is that model code, the   *)
(* longest match preferred; a literal brand+model phrase overrides it.     *)
C25_ModelCodeExtraction ==
    (r_pc = "filter" /\ Len(results) > 0) =>
        TargetProducts[request.q] = QueryNames[request.q].model

(***************************************************************************)
(* Coherence of the filename cache                                         *)
(***************************************************************************)
(* C26. Filename cache coherence: each entry of the process-wide filename  *)
(* cache equals the lower-cased filename the document store holds for that *)
(* document id; a failed or empty lookup is not kept as a permanent empty  *)
(* filename.                                                               *)
C26_CacheCoherence ==
    \A d \in DOMAIN filename_cache : filename_cache[d] = FilenameLower[d]

(***************************************************************************)
(* Citations out of range                                                  *)
(***************************************************************************)
(* C27. Citations that are all out of range: when the answer has at least  *)
(* one citation marker and every number it cites lies outside 1..N,        *)
(* answer_with_retrieved_docs returns an empty sources list; the top-10    *)
(* fallback is only for answers without any marker.                        *)
C27_AllOutOfRange ==
    (Resolved /\ CitedNumbers # {} /\ CitedNumbers \cap (1..Len(Rendered)) = {}) =>
        result.sources = <<>>

\* an answer citing 0 and 99 was resolved against a rendered list that is
\* not empty
C27_Witness ==
    /\ Resolved
    /\ CitedNumbers = {0, 99}
    /\ Len(Rendered) > 0
    /\ result.sources = <<>>
    /\ qa_pc = "done"

(***************************************************************************)
(* The token limit of the shared client                                    *)
(***************************************************************************)
\* no call of QAChain.answer is between its first and its last statement
AnswerNotRunning == qa_pc \in {"idle", "order", "render", "resolve", "respond", "done"}

(* C28. Token limit restored: after every sequential call of               *)
(* QAChain.answer has returned, whether the generation call succeeded or   *)
(* raised, for every combination of processor question and eval mode, the  *)
(* shared client's max_tokens is the configured default again.             *)
C28_TokenLimitRestored == AnswerNotRunning => llm_max_tokens = default_max_tokens

(***************************************************************************)
(* The token limit under concurrent calls                                  *)
(***************************************************************************)
\* no call of QAChain.answer is in progress
NoCallInProgress == \A t \in ThreadIds : threads[t].pc = "idle"

(* C29. Concurrent queries and the shared token limit: with two or more    *)
(* QAChain.answer calls interleaved on the one shared QAChain, once no     *)
(* call is in progress the shared client's max_tokens is the configured    *)
(* default, whatever the interleaving of the save, raise, invoke and       *)
(* restore steps.                                                          *)
C29_ConcurrentTokenLimit == NoCallInProgress => llm_max_tokens = default_max_tokens

(***************************************************************************)
(* The subtype of a spec query; what the queries of the pool say, read off *)
(* the texts themselves                                                    *)
(***************************************************************************)
\* the subtypes in the fixed order
FixedOrder ==
    << "brightness", "ram", "weight", "dimensions", "screen_to_body", "display", "battery" >>

\* the subtypes of which a keyword occurs in the query ("ratio" occurs in
\* "generation"); the last query is not a spec query
MatchingSubtypes ==
    << {"battery"}, {"battery"}, {"battery", "screen_to_body"},
       {"brightness", "display"}, {"brightness", "display"},
       {"screen_to_body", "display"}, {"screen_to_body", "display"},
       {}, {"screen_to_body"}, {"ram"}, {"weight", "dimensions"}, {"dimensions"},
       {"display"}, {} >>
SpecPoolQueries == 1..13

\* the first matching subtype in the fixed order, "general" when none matches
FirstSubtype(x) ==
    IF MatchingSubtypes[x] = {} THEN "general"
    ELSE FixedOrder[CHOOSE k \in 1..Len(FixedOrder) :
                        /\ FixedOrder[k] \in MatchingSubtypes[x]
                        /\ \A j \in 1..(k - 1) : FixedOrder[j] \notin MatchingSubtypes[x]]

\* the place of a query in the pool
PoolIndex(query) == CHOOSE x \in ExpandIds : ExpandPool[x] = query

\* the subtype blocks that occur in a text given to embed_text
BlocksIn(text) == {n \in DOMAIN SubtypeBlocks : Contains(text, SubtypeBlocks[n])}

(* C24. Subtype selection: for every spec query exactly one subtype        *)
(* synonym block is added to the expanded query, that of the first         *)
(* matching subtype in the order brightness, RAM, weight, dimensions,      *)
(* screen-to-body, display, battery, general; a query matching brightness  *)
(* and display keywords gets the brightness block, one matching            *)
(* screen-to-body and display keywords the screen-to-body block.           *)
C24_SubtypeSelection ==
    \A i \in 1..Len(embed_calls) :
        LET x == PoolIndex(embed_calls[i].query)
        IN  x \in SpecPoolQueries => BlocksIn(embed_calls[i].text) = {FirstSubtype(x)}

\* a query with brightness and display keywords and one with screen-to-body
\* and display keywords were expanded
C24_Witness ==
    /\ Len(embed_calls) = 2
    /\ MatchingSubtypes[PoolIndex(embed_calls[1].query)] = {"brightness", "display"}
    /\ BlocksIn(embed_calls[1].text) = {"brightness"}
    /\ MatchingSubtypes[PoolIndex(embed_calls[2].query)] = {"screen_to_body", "display"}
    /\ BlocksIn(embed_calls[2].text) = {"screen_to_body"}

(***************************************************************************)
(* Generation wording                                                      *)
(***************************************************************************)
\* pairs of queries of the pool: a query, and the same query with a
\* generation phrase added
GenVariants == {<<1, 2>>, <<1, 3>>, <<4, 5>>, <<6, 7>>, <<8, 9>>}

(* C30. Generation wording does not change the subtype: adding a           *)
(* generation phrase ("gen N" or "generation N") to a spec query leaves    *)
(* the selected subtype synonym block unchanged.                           *)
C30_GenerationKeepsSubtype ==
    \A i \in 1..Len(embed_calls), j \in 1..Len(embed_calls) :
        << PoolIndex(embed_calls[i].query), PoolIndex(embed_calls[j].query) >> \in GenVariants
            => BlocksIn(embed_calls[i].text) = BlocksIn(embed_calls[j].text)
=============================================================================
